---- MODULE Spec2Model ----
(***************************************************************************)
(* Model of the reconciliation core of extmark-manager                     *)
(* (src/components/data-handler.js): mergeExtensionLists, the record       *)
(* reconciler, and mergeBookmarkTrees, the tree reconciler; calls of both   *)
(* with arbitrary JavaScript values; and the handlers that feed them:      *)
(* manual backup, auto backup (src/components/backup-handler.js), import   *)
(* of a file and restore from Pantry.                                      *)
(*                                                                         *)
(* JavaScript values are modelled as strings: Undef stands for undefined   *)
(* (also: key absent), Null for null, "" for the empty string.  Slots of   *)
(* finalResult are numbered from 1 (the source numbers them from 0); the   *)
(* index 0 stands for "undefined" in a map lookup and for the source's     *)
(* matchedIndex = -1.                                                      *)
(***************************************************************************)
EXTENDS Integers, Sequences, FiniteSets, TLC

VARIABLES
    listA,            \* mergeExtensionLists: L_A, the records of the first argument (base)
    listB,            \* mergeExtensionLists: L_B, the records of the second argument (incoming)
    pos,              \* number of records of [...L_A, ...L_B] already processed
    finalResult,      \* the result array under construction
    idToIndexMap,     \* Map id -> slot
    urlToIndexMap,    \* Map homepageUrl -> slot
    matchedIndex,     \* slot the last processed record was unified into (0: appended)
    unified,          \* slots into which some record has been unified so far
    extPc,            \* "loop" while forEach runs, "done" after return, "idle" when not called
    treeA,            \* mergeBookmarkTrees: first argument (base)
    treeB,            \* mergeBookmarkTrees: second argument (incoming)
    merged,           \* mergeBookmarkTrees: the returned forest
    treePc,           \* "call" before the call, "done" after return, "idle" when not called
    argA,             \* a call with arbitrary JavaScript values: first argument
    argB,             \* a call with arbitrary JavaScript values: second argument
    ret,              \* how that call of mergeBookmarkTrees ended: outcome and value
    callPc,           \* "tree" / "ext" before that call, "entered", "returned", "raised"; "idle"
    persisted,        \* chrome.storage.local: the value of importedDataList
    remote,           \* Pantry: the basket extensionBackup
    liveExtensions,   \* what chrome.management.getAll yields
    liveBookmarks,    \* what chrome.bookmarks.getTree yields
    pantryId,         \* chrome.storage.local: the value of pantryId
    lastOp,           \* the last handler that ran, how it ended, the file it read and
                      \* the value of importedDataList before it ran
    ops,              \* number of handlers that ran
    download,         \* the file the last export handed to the user for download
    pending,          \* two handlers in flight at once: where each is, the slot it read,
                      \* the file it was given, the live tree it read
    writers,          \* those of the two that have written the slot, in the order of
                      \* their writes
    popup             \* the auto-backup part of the popup, a record:
                      \*   performManualBackupHandler: Null until the dynamic import of
                      \*     backup-handler resolves
                      \*   autoBackupTimerId: the id of the timer startAutoBackup made
                      \*     last, 0 for null
                      \*   intervals: the interval timers that are active, id and interval
                      \*   timerCount: number of setInterval calls so far
                      \*   settingsPc: "timeout" before the 300 ms timeout of
                      \*     loadAutoBackupSettings fires, "reading" while its
                      \*     chrome.storage.local.get runs, "done" after the callback;
                      \*     "idle" when the popup is not modelled
                      \*   readResult: what that chrome.storage.local.get read
                      \*   storedSettings: chrome.storage.local, autoBackupEnabled and
                      \*     autoBackupInterval
                      \*   autoBackupToggle: the checkbox auto-backup-toggle, checked
                      \*   backupIntervalSelect: the select backup-interval-select, value
                      \*   changes: number of change events of the two controls

extVars  == <<listA, listB, pos, finalResult, idToIndexMap, urlToIndexMap,
              matchedIndex, unified, extPc>>
treeVars == <<treeA, treeB, merged, treePc>>
callVars == <<argA, argB, ret, callPc>>
orchVars == <<persisted, remote, liveExtensions, liveBookmarks, pantryId, lastOp, ops,
              download>>
raceVars == <<pending, writers>>
timerVars == <<popup>>
vars     == <<listA, listB, pos, finalResult, idToIndexMap, urlToIndexMap,
              matchedIndex, unified, extPc, treeA, treeB, merged, treePc,
              argA, argB, ret, callPc,
              persisted, remote, liveExtensions, liveBookmarks, pantryId, lastOp, ops,
              download, pending, writers, popup>>

-----------------------------------------------------------------------------
(* JavaScript values *)

Undef == "#undefined"
Null  == "#null"

\* truthiness that only null fails
NotNull(v) == v # Null

\* JavaScript truthiness of a string / undefined / null value
Truthy(v) == v \notin {Undef, Null, ""}

\* a || b
JsOr(a, b) == IF Truthy(a) THEN a ELSE b

\* who allocated an object (the field own of a record): ByCaller for the
\* objects a reconciler is handed as arguments, ByCallee for the objects a
\* reconciler allocates itself (JSON.parse, an object literal)
ByCaller == "caller"
ByCallee == "callee"

\* primitive values are not objects: nobody allocated them
Primitive == "primitive"

\* all finite sequences over S of length at most n
SeqsUpTo(S, n) == UNION {[1..k -> S] : k \in 0..n}

-----------------------------------------------------------------------------
(* Arbitrary JavaScript values as arguments of a reconciler.  kind is what *)
(* the value is; items are the elements of an array, or the characters of  *)
(* a string (what for...of iterates over); own tells who allocated it.     *)

ArrayOf(items) == [kind |-> "array", items |-> items, own |-> ByCaller]

Undefined == [kind |-> "undefined", items |-> <<>>, own |-> Primitive]

NullValue == [kind |-> "null", items |-> <<>>, own |-> Primitive]

\* a plain object that is not an array: {}
PlainObject == [kind |-> "object", items |-> <<>>, own |-> ByCaller]

StringOf(chars) == [kind |-> "string", items |-> chars, own |-> Primitive]

\* function f(x = []): the default replaces undefined only
DefaultEmptyArray(x) ==
    IF x.kind = "undefined"
        THEN [kind |-> "array", items |-> <<>>, own |-> ByCallee]
        ELSE x

\* how a call ended
NotReturned == [outcome |-> "none", value |-> Undefined]

Returned(v) == [outcome |-> "return", value |-> v]

TypeError == [outcome |-> "TypeError", value |-> Undefined]

\* a snapshot: the object with the keys extensions and bookmarks (and the
\* schema version, time stamp and browser name, which no handler reads
\* back); both values are arbitrary JavaScript values
Snapshot(exts, bms) == [present |-> TRUE, extensions |-> exts, bookmarks |-> bms]

\* no snapshot: the key is not in the storage (getStoredData resolves null),
\* the basket does not exist, the file does not hold an object
NoSnapshot == [present |-> FALSE, extensions |-> Undefined, bookmarks |-> Undefined]

\* what lastOp holds before any handler ran
NoOp ==
    [name |-> "none", outcome |-> "none", fault |-> "none", told |-> "none",
     file |-> NoSnapshot, before |-> NoSnapshot, remoteCall |-> "none",
     extensionId |-> Undef]

\* nothing was handed to the user for download
NoDownload == [kind |-> "none", data |-> NoSnapshot, lines |-> <<>>]

\* a handler that is not running
NotRunning == [pc |-> "idle", stored |-> NoSnapshot, file |-> NoSnapshot, tree |-> <<>>]

\* autoBackupEnabled and autoBackupInterval as the popup reads them: a key
\* that was never saved reads as false and as 300000 (result.x ?? default)
Settings(enabled, interval) ==
    [autoBackupEnabled |-> enabled, autoBackupInterval |-> interval]

\* the popup's auto-backup controls are not modelled
TimerIdle ==
    popup = [performManualBackupHandler |-> Null,
             autoBackupTimerId          |-> 0,
             intervals                  |-> {},
             timerCount                 |-> 0,
             settingsPc                 |-> "idle",
             readResult                 |-> Settings(FALSE, 300000),
             storedSettings             |-> Settings(FALSE, 300000),
             autoBackupToggle           |-> FALSE,
             backupIntervalSelect       |-> 300000,
             changes                    |-> 0]

\* the two handlers that may run at once
Racers == {"import", "manualBackup"}

\* no two handlers are in flight at once
RaceIdle ==
    /\ pending = [h \in Racers |-> NotRunning]
    /\ writers = <<>>

\* the orchestrating handlers are not modelled
OrchIdle ==
    /\ persisted = NoSnapshot
    /\ remote = NoSnapshot
    /\ liveExtensions = <<>>
    /\ liveBookmarks = <<>>
    /\ pantryId = Undef
    /\ lastOp = NoOp
    /\ ops = 0
    /\ download = NoDownload
    /\ RaceIdle
    /\ TimerIdle

\* no call with arbitrary JavaScript values is in progress
CallIdle ==
    /\ argA = Undefined
    /\ argB = Undefined
    /\ ret = NotReturned
    /\ callPc = "idle"

-----------------------------------------------------------------------------
(* Map (idToIndexMap, urlToIndexMap) *)

EmptyMap == [k \in {} |-> 0]

\* Map.prototype.get; 0 models undefined
MapGet(m, k) == IF k \in DOMAIN m THEN m[k] ELSE 0

\* Map.prototype.set
MapSet(m, k, v) == [x \in (DOMAIN m) \cup {k} |-> IF x = k THEN v ELSE m[x]]

\* Map.prototype.delete
MapDelete(m, k) == [x \in (DOMAIN m) \ {k} |-> m[x]]

-----------------------------------------------------------------------------
(* Extension records *)

\* keys of an extension record; storeUrl stands for the opaque other keys.
\* A record also has the field own that tells who allocated the object.
ExtKeys == {"id", "name", "homepageUrl", "updateUrl", "storeUrl"}

\* the keys the unification treats by name
NamedKeys == {"id", "name", "homepageUrl", "updateUrl"}

\* JSON.parse(JSON.stringify(ext)): keys whose value is undefined are
\* dropped (they read back as undefined), null and strings are kept
JsonCopyExt(ext) ==
    [k \in ExtKeys \cup {"own"} |->
        IF k = "own" THEN ByCallee
        ELSE IF ext[k] = Undef THEN Undef ELSE ext[k]]

\* let existingIdIndex = currentExtCopy.id ? idToIndexMap.get(id) : undefined
ExistingIdIndex(cur, idMap) ==
    IF Truthy(cur.id) THEN MapGet(idMap, cur.id) ELSE 0

\* ExistingUrlIndex without the URL fallback: the lookup never finds a slot
ExistingUrlIndexNever(cur, urlMap) == 0

\* let existingUrlIndex = (homepageUrl && homepageUrl !== "") ? urlToIndexMap.get(homepageUrl) : undefined
ExistingUrlIndex(cur, urlMap) ==
    IF Truthy(cur.homepageUrl) /\ cur.homepageUrl # ""
        THEN MapGet(urlMap, cur.homepageUrl) ELSE 0

\* ResolveSlot with the lookups swapped: URL match first, then id match
ResolveSlotUrlFirst(cur, idMap, urlMap) ==
    IF ExistingUrlIndex(cur, urlMap) # 0 THEN ExistingUrlIndex(cur, urlMap)
    ELSE IF ExistingIdIndex(cur, idMap) # 0 THEN ExistingIdIndex(cur, idMap)
    ELSE 0

\* the slot a record resolves to: id match first, then URL match, else 0
ResolveSlot(cur, idMap, urlMap) ==
    IF ExistingIdIndex(cur, idMap) # 0 THEN ExistingIdIndex(cur, idMap)
    ELSE IF ExistingUrlIndex(cur, urlMap) # 0 THEN ExistingUrlIndex(cur, urlMap)
    ELSE 0

\* PreferDefined with the sides swapped: the base value wins when defined
PreferDefinedBase(p, b) == IF b # Undef /\ b # Null THEN b ELSE p

\* mergedExt.name / mergedExt.updateUrl
PreferDefined(p, b) == IF p # Undef /\ p # Null THEN p ELSE b

\* mergedExt.homepageUrl
PreferNonEmpty(p, b) == IF p # Undef /\ p # Null /\ p # "" THEN p ELSE b

\* the merged record of one unification: const mergedExt = { ...baseExt }
\* is a new object, then its keys are assigned
MergeExt(baseExt, preferredExt) ==
    LET spread == [k \in ExtKeys |-> baseExt[k]]
        named  == [spread EXCEPT
                     !.id          = JsOr(preferredExt.id, baseExt.id),
                     !.name        = PreferDefined(preferredExt.name, baseExt.name),
                     !.homepageUrl = PreferNonEmpty(preferredExt.homepageUrl, baseExt.homepageUrl),
                     !.updateUrl   = PreferDefined(preferredExt.updateUrl, baseExt.updateUrl)]
        other  == [k \in ExtKeys |->
                     IF k \notin NamedKeys /\ preferredExt[k] # Undef
                         THEN preferredExt[k] ELSE named[k]]
    IN  [k \in ExtKeys \cup {"own"} |->
           IF k = "own" THEN ByCallee
           ELSE IF other[k] = Undef /\ baseExt[k] # Undef THEN baseExt[k] ELSE other[k]]

\* idToIndexMap after a unification into slot m
RegisterId(idMap, oldId, newId, m) ==
    LET m1 == IF oldId # newId \/ (Truthy(newId) /\ MapGet(idMap, newId) # m)
                  THEN LET d == IF Truthy(oldId) /\ MapGet(idMap, oldId) = m
                                    THEN MapDelete(idMap, oldId) ELSE idMap
                       IN  IF Truthy(newId) THEN MapSet(d, newId, m) ELSE d
                  ELSE idMap
    IN  IF ~Truthy(oldId) /\ Truthy(newId) /\ MapGet(m1, newId) # m
            THEN MapSet(m1, newId, m) ELSE m1

\* urlToIndexMap after a unification into slot m
RegisterUrl(urlMap, oldUrl, newUrl, m) ==
    LET m1 == IF oldUrl # newUrl \/ (Truthy(newUrl) /\ newUrl # "" /\ MapGet(urlMap, newUrl) # m)
                  THEN LET d == IF Truthy(oldUrl) /\ oldUrl # "" /\ MapGet(urlMap, oldUrl) = m
                                    THEN MapDelete(urlMap, oldUrl) ELSE urlMap
                       IN  IF Truthy(newUrl) /\ newUrl # "" THEN MapSet(d, newUrl, m) ELSE d
                  ELSE urlMap
    IN  IF (~Truthy(oldUrl) \/ oldUrl = "") /\ (Truthy(newUrl) /\ newUrl # "")
           /\ MapGet(m1, newUrl) # m
            THEN MapSet(m1, newUrl, m) ELSE m1

-----------------------------------------------------------------------------
(* mergeExtensionLists as a state machine: one step per forEach iteration *)

\* [...L_A, ...L_B]
Combined == listA \o listB

\* the record the next iteration works on (currentExtCopy)
CurrentExtCopy == JsonCopyExt(Combined[pos + 1])

\* isFromListB of the next iteration
IsFromListB == pos >= Len(listA)

\* if (targetExtRef) { ... }: the record matched an occupied slot
UnifyRecord ==
    /\ extPc = "loop"
    /\ pos < Len(Combined)
    /\ ResolveSlot(CurrentExtCopy, idToIndexMap, urlToIndexMap) # 0
    /\ LET cur         == CurrentExtCopy
           m           == ResolveSlot(cur, idToIndexMap, urlToIndexMap)
           target      == finalResult[m]
           baseExt     == IF IsFromListB THEN target ELSE cur
           preferred   == IF IsFromListB THEN cur ELSE target
           mergedExt   == MergeExt(baseExt, preferred)
       IN  /\ finalResult' = [finalResult EXCEPT ![m] = mergedExt]
           /\ idToIndexMap' = RegisterId(idToIndexMap, target.id, mergedExt.id, m)
           /\ urlToIndexMap' = RegisterUrl(urlToIndexMap, target.homepageUrl,
                                           mergedExt.homepageUrl, m)
           /\ matchedIndex' = m
           /\ unified' = unified \cup {m}
    /\ pos' = pos + 1
    /\ UNCHANGED <<listA, listB, extPc, treeA, treeB, merged, treePc, callVars, orchVars, raceVars, timerVars>>

\* else { finalResult.push(currentExtCopy); ... }: a new entry
AppendRecord ==
    /\ extPc = "loop"
    /\ pos < Len(Combined)
    /\ ResolveSlot(CurrentExtCopy, idToIndexMap, urlToIndexMap) = 0
    /\ LET cur      == CurrentExtCopy
           newIndex == Len(finalResult) + 1
       IN  /\ finalResult' = Append(finalResult, cur)
           /\ idToIndexMap' = IF Truthy(cur.id)
                                  THEN MapSet(idToIndexMap, cur.id, newIndex)
                                  ELSE idToIndexMap
           /\ urlToIndexMap' = IF Truthy(cur.homepageUrl) /\ cur.homepageUrl # ""
                                   THEN MapSet(urlToIndexMap, cur.homepageUrl, newIndex)
                                   ELSE urlToIndexMap
    /\ matchedIndex' = 0
    /\ pos' = pos + 1
    /\ UNCHANGED <<listA, listB, unified, extPc, treeA, treeB, merged, treePc, callVars, orchVars, raceVars, timerVars>>

\* return finalResult
ReturnResult ==
    /\ extPc = "loop"
    /\ pos = Len(Combined)
    /\ extPc' = "done"
    /\ UNCHANGED <<listA, listB, pos, finalResult, idToIndexMap, urlToIndexMap,
                   matchedIndex, unified, treeA, treeB, merged, treePc, callVars, orchVars, raceVars, timerVars>>

\* one forEach iteration as a function of the loop state
\* st = [res: finalResult, ids: idToIndexMap, urls: urlToIndexMap]
ForEachStep(st, currentExt, isFromListB) ==
    LET cur == JsonCopyExt(currentExt)
        m   == ResolveSlot(cur, st.ids, st.urls)
    IN  IF m # 0
            THEN LET target    == st.res[m]
                     baseExt   == IF isFromListB THEN target ELSE cur
                     preferred == IF isFromListB THEN cur ELSE target
                     mergedExt == MergeExt(baseExt, preferred)
                 IN  [res  |-> [st.res EXCEPT ![m] = mergedExt],
                      ids  |-> RegisterId(st.ids, target.id, mergedExt.id, m),
                      urls |-> RegisterUrl(st.urls, target.homepageUrl,
                                           mergedExt.homepageUrl, m)]
            ELSE LET newIndex == Len(st.res) + 1
                 IN  [res  |-> Append(st.res, cur),
                      ids  |-> IF Truthy(cur.id)
                                   THEN MapSet(st.ids, cur.id, newIndex) ELSE st.ids,
                      urls |-> IF Truthy(cur.homepageUrl) /\ cur.homepageUrl # ""
                                   THEN MapSet(st.urls, cur.homepageUrl, newIndex)
                                   ELSE st.urls]

\* the forEach over [...L_A, ...L_B] from position i on
RECURSIVE ForEachFrom(_, _, _, _)
ForEachFrom(st, la, lb, i) ==
    IF i > Len(la) + Len(lb)
        THEN st
        ELSE ForEachFrom(ForEachStep(st, (la \o lb)[i], i > Len(la)), la, lb, i + 1)

\* mergeExtensionLists(listA, listB) on lists of records: the returned array
MergeExtensionListsOf(la, lb) ==
    ForEachFrom([res |-> <<>>, ids |-> EmptyMap, urls |-> EmptyMap], la, lb, 1).res

-----------------------------------------------------------------------------
(* Inputs of mergeExtensionLists *)

\* bounds on the number of records of base and incoming together
MaxRecords == 4
MaxFieldRecords == 3

\* records that differ in their identity keys only
KeyRecords ==
    {[id |-> i, name |-> "n1", homepageUrl |-> u, updateUrl |-> Undef, storeUrl |-> Undef,
      own |-> ByCaller] :
        i \in {Undef, "i1", "i2"}, u \in {Undef, "u1", "u2"}}

\* name / updateUrl / storeUrl combinations
FieldProfiles ==
    { [name |-> "n1",  updateUrl |-> "p1",  storeUrl |-> "s1"],
      [name |-> "n2",  updateUrl |-> "",    storeUrl |-> "s2"],
      [name |-> "",    updateUrl |-> Undef, storeUrl |-> Undef],
      [name |-> Undef, updateUrl |-> Null,  storeUrl |-> Null] }

\* records that also differ in their other fields
FieldRecords ==
    {[id |-> i, name |-> p.name, homepageUrl |-> u, updateUrl |-> p.updateUrl,
      storeUrl |-> p.storeUrl, own |-> ByCaller] :
        i \in {Undef, "i1"}, u \in {"u1", "u2"}, p \in FieldProfiles}

\* the state at the start of the forEach, the tree reconciler idle
InitExtWith(recs, n) ==
    /\ listA \in SeqsUpTo(recs, n)
    /\ listB \in SeqsUpTo(recs, n - Len(listA))
    /\ pos = 0
    /\ finalResult = <<>>
    /\ idToIndexMap = EmptyMap
    /\ urlToIndexMap = EmptyMap
    /\ matchedIndex = 0
    /\ unified = {}
    /\ extPc = "loop"
    /\ treeA = <<>>
    /\ treeB = <<>>
    /\ merged = <<>>
    /\ treePc = "idle"
    /\ CallIdle
    /\ OrchIdle

InitKeys == InitExtWith(KeyRecords, MaxRecords)

InitFields == InitExtWith(FieldRecords, MaxFieldRecords)

\* bound on the number of records of base and incoming together
MaxKeylessRecords == 3

\* records with and without keys: an id and a homepageUrl that are
\* undefined, empty or set, and a second record without keys that differs
\* from the first in its name
KeylessRecords ==
    {[id |-> i, name |-> "n1", homepageUrl |-> u, updateUrl |-> Undef, storeUrl |-> Undef,
      own |-> ByCaller] :
        i \in {Undef, "", "i1"}, u \in {Undef, "", "u1"}}
    \cup {[id |-> Undef, name |-> "n2", homepageUrl |-> Undef, updateUrl |-> Undef,
           storeUrl |-> Undef, own |-> ByCaller]}

InitKeyless == InitExtWith(KeylessRecords, MaxKeylessRecords)

NextExt == UnifyRecord \/ AppendRecord \/ ReturnResult

\* mergeExtensionLists over lists of key records
SpecKeys == InitKeys /\ [][NextExt]_vars

\* mergeExtensionLists over lists of records with varying fields
SpecFields == InitFields /\ [][NextExt]_vars

\* mergeExtensionLists over lists that hold records without keys
SpecKeyless == InitKeyless /\ [][NextExt]_vars

-----------------------------------------------------------------------------
(* Bookmark nodes.  A node is a record; folder is TRUE when the node has a *)
(* children array (a folder), and url is Undef when it has no url.  The    *)
(* field own tells who allocated the object and its children array.        *)

Leaf(i, t, u) ==
    [id |-> i, title |-> t, url |-> u, folder |-> FALSE, children |-> <<>>,
     browser |-> Undef, own |-> ByCaller]

Folder(i, t, ch) ==
    [id |-> i, title |-> t, url |-> Undef, folder |-> TRUE, children |-> ch,
     browser |-> Undef, own |-> ByCaller]

\* a node handed on as it is, without a copy
SameNode(n) == n

\* JSON.parse(JSON.stringify(node)): a deep copy, keys with undefined
\* dropped; every object of the copy is allocated by the reconciler, and a
\* primitive value stays what it is
RECURSIVE JsonCopyNode(_)
JsonCopyNode(n) ==
    [id       |-> IF n.id = Undef THEN Undef ELSE n.id,
     title    |-> n.title,
     url      |-> IF n.url = Undef THEN Undef ELSE n.url,
     folder   |-> n.folder,
     children |-> [k \in DOMAIN n.children |-> JsonCopyNode(n.children[k])],
     browser  |-> IF n.browser = Undef THEN Undef ELSE n.browser,
     own      |-> IF n.own = Primitive THEN Primitive ELSE ByCallee]

\* JSON.parse(JSON.stringify(list))
JsonCopyForest(f) == [k \in DOMAIN f |-> JsonCopyNode(f[k])]

\* isDuplicateBookmark comparing node ids instead of url and title
IsDuplicateBookmarkById(target, node) ==
    \E k \in DOMAIN target : target[k].id # Undef /\ target[k].id = node.id

\* isDuplicateBookmark that requires the titles to differ
IsDuplicateBookmarkOtherTitle(target, node) ==
    \E k \in DOMAIN target :
        /\ Truthy(target[k].url)
        /\ Truthy(node.url)
        /\ target[k].url = node.url
        /\ target[k].title # node.title

\* isDuplicateBookmark(target, node)
IsDuplicateBookmark(target, node) ==
    \E k \in DOMAIN target :
        /\ Truthy(target[k].url)
        /\ Truthy(node.url)
        /\ target[k].url = node.url
        /\ target[k].title = node.title

\* target.find matching on url instead of title: folders have no url, so
\* the search only succeeds for folders whose url is defined
ExistingFolderByUrl(target, srcNodeCopy) ==
    LET hits == {k \in DOMAIN target :
                    target[k].folder /\ Truthy(target[k].url)
                    /\ target[k].url = srcNodeCopy.url}
    IN  IF hits = {} THEN 0 ELSE CHOOSE k \in hits : \A h \in hits : k <= h

\* target.find(t => t.children && t.title === srcNodeCopy.title): the
\* position of the first such folder, 0 when there is none
ExistingFolderInTarget(target, srcNodeCopy) ==
    LET hits == {k \in DOMAIN target :
                    target[k].folder /\ target[k].title = srcNodeCopy.title}
    IN  IF hits = {} THEN 0 ELSE CHOOSE k \in hits : \A h \in hits : k <= h

\* mergeNodes(target, source); the value is target after the loop.
\* MergeNode is one iteration of the loop on the copy of a source node.
RECURSIVE MergeNodes(_, _), MergeNode(_, _)

\* one iteration that replaces the children of every matched folder, as the
\* source does for "Bookmarks Bar" only
MergeNodeReplaceAlways(target, srcNodeCopy) ==
    IF srcNodeCopy.folder
        THEN LET e == ExistingFolderInTarget(target, srcNodeCopy)
             IN  IF e # 0
                     THEN [target EXCEPT ![e].children = srcNodeCopy.children]
                     ELSE Append(target, srcNodeCopy)
        ELSE IF ~IsDuplicateBookmark(target, srcNodeCopy)
                 THEN Append(target, srcNodeCopy)
                 ELSE target

\* one iteration that merges the children of every matched folder, as the
\* source does for every title but "Bookmarks Bar"
MergeNodeUnionAlways(target, srcNodeCopy) ==
    IF srcNodeCopy.folder
        THEN LET e == ExistingFolderInTarget(target, srcNodeCopy)
             IN  IF e # 0
                     THEN [target EXCEPT
                             ![e].title = srcNodeCopy.title,
                             ![e].children = MergeNodes(@, srcNodeCopy.children)]
                     ELSE Append(target, srcNodeCopy)
        ELSE IF ~IsDuplicateBookmark(target, srcNodeCopy)
                 THEN Append(target, srcNodeCopy)
                 ELSE target

MergeNode(target, srcNodeCopy) ==
    IF srcNodeCopy.folder
        THEN LET e == ExistingFolderInTarget(target, srcNodeCopy)
             IN  IF e # 0
                     THEN IF srcNodeCopy.title = "Bookmarks Bar"
                              THEN [target EXCEPT ![e].children = srcNodeCopy.children]
                              ELSE [target EXCEPT
                                      ![e].title = srcNodeCopy.title,
                                      ![e].children = MergeNodes(@, srcNodeCopy.children)]
                     ELSE Append(target, srcNodeCopy)
        ELSE IF ~IsDuplicateBookmark(target, srcNodeCopy)
                 THEN Append(target, srcNodeCopy)
                 ELSE target

MergeNodes(target, source) ==
    IF source = <<>>
        THEN target
        ELSE MergeNodes(MergeNode(target, JsonCopyNode(Head(source))), Tail(source))

\* mergeBookmarkTrees(listA, listB)
MergeBookmarkTreesOf(a, b) == MergeNodes(JsonCopyForest(a), b)

\* the call of mergeBookmarkTrees
MergeBookmarkTrees ==
    /\ treePc = "call"
    /\ merged' = MergeBookmarkTreesOf(treeA, treeB)
    /\ treePc' = "done"
    /\ UNCHANGED <<treeA, treeB, listA, listB, pos, finalResult, idToIndexMap,
                   urlToIndexMap, matchedIndex, unified, extPc, callVars, orchVars, raceVars, timerVars>>

-----------------------------------------------------------------------------
(* Inputs of mergeBookmarkTrees: all forests of at most MaxNodes nodes *)

MaxNodesA == 3
MaxNodesB == 2

\* nodes without children: two leaves that differ in title only, and a
\* node that has neither url nor children
Atoms == { Leaf(Undef, "F", "u1"), Leaf(Undef, "t", "u1"), Leaf(Undef, "t", Undef) }

FolderTitles == {"Bookmarks Bar", "F"}

\* forests / nodes with exactly n nodes
RECURSIVE ForestsOfSize(_), NodesOfSize(_)
NodesOfSize(n) ==
    IF n = 0 THEN {}
    ELSE (IF n = 1 THEN Atoms ELSE {})
         \cup {Folder(Undef, t, ch) : t \in FolderTitles, ch \in ForestsOfSize(n - 1)}

ForestsOfSize(n) ==
    IF n = 0 THEN {<<>>}
    ELSE UNION { {<<nd>> \o rest : nd \in NodesOfSize(k), rest \in ForestsOfSize(n - k)} :
                    k \in 1..n }

ForestsUpTo(n) == UNION {ForestsOfSize(k) : k \in 0..n}

\* the forest with every node's id set to i
RECURSIVE WithId(_, _)
WithId(f, i) ==
    [k \in DOMAIN f |-> [f[k] EXCEPT !.id = i, !.children = WithId(@, i)]]

\* the state before the call, the record reconciler idle; the incoming
\* forest is any forest (ids "b") or the base forest itself
InitTree ==
    /\ treeA \in {WithId(f, "a") : f \in ForestsUpTo(MaxNodesA)}
    /\ treeB \in {WithId(f, "b") : f \in ForestsUpTo(MaxNodesB)} \cup {treeA}
    /\ merged = <<>>
    /\ treePc = "call"
    /\ listA = <<>>
    /\ listB = <<>>
    /\ pos = 0
    /\ finalResult = <<>>
    /\ idToIndexMap = EmptyMap
    /\ urlToIndexMap = EmptyMap
    /\ matchedIndex = 0
    /\ unified = {}
    /\ extPc = "idle"
    /\ CallIdle
    /\ OrchIdle

NextTree == MergeBookmarkTrees

\* mergeBookmarkTrees over pairs of forests
SpecTree == InitTree /\ [][NextTree]_vars

-----------------------------------------------------------------------------
(* The reconcilers called with arbitrary JavaScript values *)

\* what a character of a string is to mergeNodes: a value without children,
\* url and title
CharNode ==
    [id |-> Undef, title |-> Undef, url |-> Undef, folder |-> FALSE, children |-> <<>>,
     browser |-> Undef, own |-> Primitive]

\* JSON.parse(JSON.stringify(listA)) of any value but undefined
JsonCopyValue(x) ==
    IF x.kind = "array"
        THEN [kind |-> "array", items |-> JsonCopyForest(x.items), own |-> ByCallee]
        ELSE IF x.kind = "object" THEN [x EXCEPT !.own = ByCallee]
        ELSE x

\* mergeBookmarkTrees(listA = [], listB = []) on any values: for...of raises
\* on a value that is not iterable, and target.find / target.some raise in
\* the first iteration when the copy of listA is not an array
MergeBookmarkTreesCall(a, b) ==
    LET la      == DefaultEmptyArray(a)
        lb      == DefaultEmptyArray(b)
        merged0 == JsonCopyValue(la)
    IN  IF lb.kind \notin {"array", "string"} THEN TypeError
        ELSE IF lb.items = <<>> THEN Returned(merged0)
        ELSE IF merged0.kind # "array" THEN TypeError
        ELSE Returned([merged0 EXCEPT !.items = MergeNodes(@, lb.items)])

\* the call of mergeBookmarkTrees
CallMergeBookmarkTrees ==
    /\ callPc = "tree"
    /\ ret' = MergeBookmarkTreesCall(argA, argB)
    /\ callPc' = IF ret'.outcome = "return" THEN "returned" ELSE "raised"
    /\ UNCHANGED <<argA, argB, extVars, treeVars, orchVars, raceVars, timerVars>>

\* the entries of an array handed to mergeExtensionLists: a record, or a
\* value that is not an object (ext is then a record without any key)
NoRecord == [k \in ExtKeys \cup {"own"} |-> IF k = "own" THEN Primitive ELSE Undef]

RecordEntry(ext) == [kind |-> "object", ext |-> ext]

NullEntry == [kind |-> "null", ext |-> NoRecord]

StringEntry == [kind |-> "string", ext |-> NoRecord]

\* e => typeof e === 'object', which null passes
IsObjectEntryByTypeof(e) == e.kind \in {"object", "null"}

\* e => e && typeof e === 'object'
IsObjectEntry(e) == e.kind # "null" /\ e.kind \in {"object", "null"}

\* Array.isArray(list) ? list.filter(e => e && typeof e === 'object') : []
FilterObjects(list) ==
    IF list.kind = "array"
        THEN LET kept == SelectSeq(list.items, IsObjectEntry)
             IN  [k \in DOMAIN kept |-> kept[k].ext]
        ELSE <<>>

\* mergeExtensionLists(listA = [], listB = []) on any values
MergeExtensionListsCall(a, b) == MergeExtensionListsOf(FilterObjects(a), FilterObjects(b))

\* the call of mergeExtensionLists up to the forEach
EnterMergeExtensionLists ==
    /\ callPc = "ext"
    /\ listA' = FilterObjects(argA)
    /\ listB' = FilterObjects(argB)
    /\ finalResult' = <<>>
    /\ idToIndexMap' = EmptyMap
    /\ urlToIndexMap' = EmptyMap
    /\ pos' = 0
    /\ extPc' = "loop"
    /\ callPc' = "entered"
    /\ UNCHANGED <<matchedIndex, unified, argA, argB, ret, treeVars, orchVars, raceVars, timerVars>>

\* bounds on the arguments: nodes of a forest, entries of an array
MaxCallNodes == 2
MaxCallEntries == 2

CallRecords ==
    {[id |-> i, name |-> "n1", homepageUrl |-> u, updateUrl |-> Undef, storeUrl |-> Undef,
      own |-> ByCaller] :
        i \in {Undef, "i1"}, u \in {Undef, "u1"}}

CallEntries == {RecordEntry(r) : r \in CallRecords} \cup {NullEntry, StringEntry}

\* values that are not arrays
NotArrays == {Undefined, NullValue, PlainObject, StringOf(<<>>), StringOf(<<CharNode>>)}

TreeArguments(i) == NotArrays \cup {ArrayOf(WithId(f, i)) : f \in ForestsUpTo(MaxCallNodes)}

ExtArguments == NotArrays \cup {ArrayOf(e) : e \in SeqsUpTo(CallEntries, MaxCallEntries)}

\* the state before a call of either reconciler
InitCalls ==
    /\ callPc \in {"tree", "ext"}
    /\ argA \in IF callPc = "tree" THEN TreeArguments("a") ELSE ExtArguments
    /\ argB \in IF callPc = "tree" THEN TreeArguments("b") ELSE ExtArguments
    /\ ret = NotReturned
    /\ listA = <<>>
    /\ listB = <<>>
    /\ pos = 0
    /\ finalResult = <<>>
    /\ idToIndexMap = EmptyMap
    /\ urlToIndexMap = EmptyMap
    /\ matchedIndex = 0
    /\ unified = {}
    /\ extPc = "idle"
    /\ treeA = <<>>
    /\ treeB = <<>>
    /\ merged = <<>>
    /\ treePc = "idle"
    /\ OrchIdle

NextCalls ==
    \/ CallMergeBookmarkTrees
    \/ EnterMergeExtensionLists
    \/ UnifyRecord
    \/ AppendRecord
    \/ ReturnResult

\* either reconciler called with arrays and with values that are not arrays
SpecCalls == InitCalls /\ [][NextCalls]_vars

-----------------------------------------------------------------------------
(* The handlers that call the reconcilers: manual backup, auto backup,     *)
(* import of a file, restore from Pantry                                   *)

\* the truthiness of an arbitrary value
ValueTruthy(x) ==
    /\ x.kind \notin {"undefined", "null"}
    /\ ~(x.kind = "string" /\ x.items = <<>>)

\* a || b on arbitrary values
JsOrValue(a, b) == IF ValueTruthy(a) THEN a ELSE b

\* []
EmptyArray == [kind |-> "array", items |-> <<>>, own |-> ByCallee]

\* an array of records
RecordArray(recs) ==
    [kind |-> "array", items |-> [k \in DOMAIN recs |-> RecordEntry(recs[k])],
     own |-> ByCallee]

\* the forest with every object handed over to owner o
RECURSIVE OwnedForest(_, _)
OwnedForest(f, o) ==
    [k \in DOMAIN f |->
        [f[k] EXCEPT !.own = IF @ = Primitive THEN @ ELSE o,
                     !.children = OwnedForest(@, o)]]

\* what is read back after JSON.stringify / chrome.storage.local.set of a
\* bookmarks value: objects of their own, allocated by nobody's reconciler
SerialisedBookmarks(v) ==
    IF v.kind = "array"
        THEN [kind |-> "array", items |-> OwnedForest(v.items, ByCaller), own |-> ByCaller]
        ELSE IF v.kind = "object" THEN [v EXCEPT !.own = ByCaller]
        ELSE v

\* likewise for an extensions value
SerialisedExtensions(v) ==
    IF v.kind = "array"
        THEN [kind  |-> "array",
              items |-> [k \in DOMAIN v.items |->
                            [v.items[k] EXCEPT !.ext.own = IF @ = Primitive THEN @ ELSE ByCaller]],
              own   |-> ByCaller]
        ELSE IF v.kind = "object" THEN [v EXCEPT !.own = ByCaller]
        ELSE v

\* likewise for a snapshot
Serialised(snap) ==
    Snapshot(SerialisedExtensions(snap.extensions), SerialisedBookmarks(snap.bookmarks))

\* chrome.storage.local.set({importedDataList: value}) that keeps the
\* records of the old value next to the new ones
SlotAfterSetKeepingOld(slot, value) ==
    IF slot.present /\ slot.extensions.kind = "array" /\ value.extensions.kind = "array"
        THEN Serialised([value EXCEPT !.extensions.items = slot.extensions.items \o @])
        ELSE Serialised(value)

\* chrome.storage.local.set({importedDataList: value}) that keeps the
\* bookmarks of the old value in front of the new ones
SlotAfterSetKeepingOldBookmarks(slot, value) ==
    IF slot.present /\ slot.bookmarks.kind = "array" /\ value.bookmarks.kind = "array"
        THEN Serialised([value EXCEPT !.bookmarks.items = slot.bookmarks.items \o @])
        ELSE Serialised(value)

\* chrome.storage.local.set({importedDataList: value}): the slot is
\* overwritten wholesale
SlotAfterSet(slot, value) == Serialised(value)

\* the items of chrome.management.getAll: a record with the key type
LiveItem(i, n, u, p, t) ==
    [id |-> i, name |-> n, homepageUrl |-> u, updateUrl |-> p, storeUrl |-> Undef,
     type |-> t, own |-> ByCaller]

\* performManualBackup of backup-feature: item => ({id, name, homepageUrl, updateUrl})
InstalledExtension(item) ==
    [id |-> item.id, name |-> item.name, homepageUrl |-> item.homepageUrl,
     updateUrl |-> item.updateUrl, storeUrl |-> Undef, own |-> ByCallee]

\* getStoreUrl(ext, currentBrowserName) for the browser Chrome and update
\* URLs of the Chrome store: the detail page of the id when there is an
\* updateUrl, else a search for the name
GetStoreUrl(ext) ==
    IF Truthy(ext.updateUrl)
        THEN (CASE ext.id = "i1" -> "detail/i1"
                [] ext.id = "i2" -> "detail/i2"
                [] OTHER         -> "detail/other")
        ELSE (CASE ext.name = "n1" -> "search/n1"
                [] ext.name = "n2" -> "search/n2"
                [] OTHER           -> "search/other")

\* performManualBackup of backup-handler: ext => ({id, name, homepageUrl:
\* ext.homepageUrl || null, updateUrl: ext.updateUrl || null, storeUrl})
ExportableExtension(ext) ==
    [id |-> ext.id, name |-> ext.name, homepageUrl |-> JsOr(ext.homepageUrl, Null),
     updateUrl |-> JsOr(ext.updateUrl, Null), storeUrl |-> GetStoreUrl(ext),
     own |-> ByCallee]

\* ext => ext.type === 'extension'
IsExtension(ext) == ext.type = "extension"

\* f applied to every element: list.map(f)
MapSeq(list, F(_)) == [k \in DOMAIN list |-> F(list[k])]

\* the snapshot of backup-handler: the live state alone.  The first
\* parameter, the stored data, is not read.
LiveBackupData(storedData, exts, tree) ==
    [outcome |-> "return",
     value   |-> Snapshot(RecordArray(MapSeq(SelectSeq(exts, IsExtension), ExportableExtension)),
                          ArrayOf(tree))]

\* a snapshot of the backup button made like that of the timer, without
\* the stored data
BackupDataOfLiveStateOnly(storedData, exts, tree) == LiveBackupData(storedData, exts, tree)

\* the snapshot of backup-feature (steps 2 of performManualBackup): stored
\* data merged with the live state; a TypeError when mergeBookmarkTrees
\* raises
MergedBackupData(storedData, exts, tree) ==
    LET installedExtensions == MapSeq(exts, InstalledExtension)
        extensionsToBackup  ==
            MergeExtensionListsCall(JsOrValue(storedData.extensions, EmptyArray),
                                    RecordArray(installedExtensions))
        mergedBookmarks     ==
            MergeBookmarkTreesCall(JsOrValue(storedData.bookmarks, EmptyArray), ArrayOf(tree))
    IN  IF mergedBookmarks.outcome = "TypeError"
            THEN [outcome |-> "TypeError", value |-> NoSnapshot]
            ELSE [outcome |-> "return",
                  value   |-> Snapshot(RecordArray(extensionsToBackup), mergedBookmarks.value)]

\* what is noted of a handler that has run: its name and outcome; the
\* external collaborator that failed ("storage", "browser", "network" or
\* "none"); what the user or the caller is told ("success": the handler
\* shows or returns success, "failure": it alerts, shows or returns a
\* failure, "unhandled": a promise rejection that nothing catches); the
\* file it was given and the slot as it was before
Op(n, o, f, t) ==
    [name |-> n, outcome |-> o, fault |-> f, told |-> t,
     file |-> NoSnapshot, before |-> persisted, remoteCall |-> "none",
     extensionId |-> Undef]

\* the same for a handler that got as far as its fetch: remoteCall is "ok"
\* if the call brought what the handler needs and "failed" if it did not
RemoteOp(n, o, f, t, call) == [Op(n, o, f, t) EXCEPT !.remoteCall = call]

\* bound on the number of handlers that run
MaxOps == 2

\* performManualBackup of backup-feature, the click handler of the backup
\* button.  postOk: fetch resolves and the POST is answered with
\* response.ok; setOk: chrome.storage.local.set ends without lastError
ManualBackup ==
    /\ ops < MaxOps
    /\ \E postOk, setOk \in BOOLEAN :
          LET backupData == MergedBackupData(persisted, liveExtensions, liveBookmarks)
          IN  IF ~Truthy(pantryId) \/ backupData.outcome = "TypeError"
                  THEN /\ lastOp' = Op("manualBackup", "failed", "none", "failure")
                       /\ UNCHANGED <<persisted, remote>>
              ELSE IF ~postOk
                  THEN /\ lastOp' = RemoteOp("manualBackup", "failed", "network", "failure", "failed")
                       /\ UNCHANGED <<persisted, remote>>
                  ELSE /\ remote' = Serialised(backupData.value)
                       /\ IF setOk
                              THEN /\ persisted' = SlotAfterSet(persisted, backupData.value)
                                   /\ lastOp' = RemoteOp("manualBackup", "ok", "none", "success", "ok")
                              ELSE /\ UNCHANGED persisted
                                   /\ lastOp' = RemoteOp("manualBackup", "uploaded only",
                                                         "storage", "success", "ok")
    /\ ops' = ops + 1
    /\ UNCHANGED <<liveExtensions, liveBookmarks, pantryId, download,
                   extVars, treeVars, callVars, raceVars, timerVars>>

\* the setInterval callback of startAutoBackup: performManualBackup of
\* backup-handler, which returns {success, message}.  apiOk:
\* chrome.management.getAll and chrome.bookmarks.getTree end without
\* lastError; postOk: fetch resolves and the POST is answered with
\* response.ok
AutoBackupTick ==
    /\ ops < MaxOps
    /\ \E apiOk, postOk \in BOOLEAN :
          LET backupData == LiveBackupData(persisted, liveExtensions, liveBookmarks)
          IN  IF ~Truthy(pantryId)
                  THEN /\ lastOp' = Op("autoBackup", "failed", "none", "failure")
                       /\ UNCHANGED remote
              ELSE IF ~apiOk
                  THEN /\ lastOp' = Op("autoBackup", "failed", "browser", "failure")
                       /\ UNCHANGED remote
              ELSE IF ~postOk
                  THEN /\ lastOp' = Op("autoBackup", "failed", "network", "failure")
                       /\ UNCHANGED remote
                  ELSE /\ remote' = Serialised(backupData.value)
                       /\ lastOp' = Op("autoBackup", "ok", "none", "success")
    /\ ops' = ops + 1
    /\ UNCHANGED <<persisted, liveExtensions, liveBookmarks, pantryId, download,
                   extVars, treeVars, callVars, raceVars, timerVars>>

\* importedFileData.bookmarks || storedData?.bookmarks || [] replaced by a
\* merge of the two
ImportedBookmarksMerged(file, storedData) ==
    IF file.bookmarks.kind = "array" /\ storedData.bookmarks.kind = "array"
        THEN MergeBookmarkTreesCall(storedData.bookmarks, file.bookmarks).value
        ELSE JsOrValue(file.bookmarks, JsOrValue(storedData.bookmarks, EmptyArray))

\* importedFileData.bookmarks || storedData?.bookmarks || []
ImportedBookmarks(file, storedData) ==
    JsOrValue(file.bookmarks, JsOrValue(storedData.bookmarks, EmptyArray))

\* dataToSave of importAllData
DataToSave(file, storedData) ==
    LET storedExtensions   == JsOrValue(storedData.extensions, EmptyArray)
        importedExtensions == JsOrValue(file.extensions, EmptyArray)
        mergedExtensions   == MergeExtensionListsCall(storedExtensions, importedExtensions)
    IN  Snapshot(RecordArray(mergedExtensions), ImportedBookmarks(file, storedData))

\* node.title === 'Bookmarks Bar' || (node.id && node.id.startsWith('1'))
IsBookmarksBar(node) == node.title = "Bookmarks Bar" \/ node.id \in {"1", "10"}

\* findBookmarksBar(bookmarkTree): the position of the folder among the
\* children of the root, 0 for null
FindBookmarksBar(tree) ==
    IF tree = <<>> THEN 0
    ELSE IF ~tree[1].folder THEN 0
    ELSE LET hits == {k \in DOMAIN tree[1].children : IsBookmarksBar(tree[1].children[k])}
         IN  IF hits = {} THEN 0 ELSE CHOOSE k \in hits : \A h \in hits : k <= h

\* bookmark.title.startsWith('_')
IsSpecialTitle(t) == t \in {"_", "_special"}

\* chrome.bookmarks.remove(id) removes a bookmark or an empty folder; a
\* folder with children stays
SurvivesClearing(node) ==
    IsSpecialTitle(node.title) \/ (node.folder /\ node.children # <<>>)

\* addBookmarks(parentId, bookmarks): the nodes chrome.bookmarks.create
\* makes; a node created without url is a folder
RECURSIVE CreatedNodes(_)
CreatedNodes(bookmarks) ==
    [k \in DOMAIN bookmarks |->
        LET b == bookmarks[k]
        IN  IF b.folder
                THEN [id |-> "new", title |-> b.title, url |-> Undef, folder |-> TRUE,
                      children |-> CreatedNodes(b.children), browser |-> Undef,
                      own |-> ByCaller]
                ELSE [id |-> "new", title |-> b.title, url |-> b.url,
                      folder |-> ~Truthy(b.url), children |-> <<>>, browser |-> Undef,
                      own |-> ByCaller]]

\* the live bookmark tree after the sync of importAllData: findBookmarksBar
\* and mergeBookmarksIntoBrowser
SyncedBrowser(tree, bookmarks) ==
    LET bar == FindBookmarksBar(tree)
    IN  IF bookmarks.kind # "array" \/ bookmarks.items = <<>> \/ bar = 0
            THEN tree
            ELSE [tree EXCEPT ![1].children[bar].children =
                     SelectSeq(@, SurvivesClearing) \o CreatedNodes(bookmarks.items)]

\* reader.onload of importAllData for a file that was read.  setOk:
\* chrome.storage.local.set ends without lastError
ImportFile(file) ==
    /\ ops < MaxOps
    /\ \E setOk \in BOOLEAN :
          IF ~file.present
              THEN /\ lastOp' = [Op("import", "failed", "none", "failure")
                                       EXCEPT !.file = file]
                   /\ UNCHANGED <<persisted, liveBookmarks>>
              ELSE LET dataToSave == DataToSave(file, persisted)
                   IN  /\ liveBookmarks' = SyncedBrowser(liveBookmarks, dataToSave.bookmarks)
                       /\ IF setOk
                              THEN /\ persisted' = SlotAfterSet(persisted, dataToSave)
                                   /\ lastOp' = [Op("import", "ok", "none", "success")
                                                     EXCEPT !.file = file]
                              ELSE /\ UNCHANGED persisted
                                   /\ lastOp' = [Op("import", "failed", "storage", "failure")
                                                     EXCEPT !.file = file]
    /\ ops' = ops + 1
    /\ UNCHANGED <<remote, liveExtensions, pantryId, download, extVars, treeVars, callVars, raceVars, timerVars>>

\* mergedData of loadAndDisplayImportedData for importedData that is an
\* object
MergedData(importedData, exts, tree) ==
    LET live               == SelectSeq(exts, IsExtension)
        extensionsToDisplay ==
            IF ValueTruthy(importedData.extensions) /\ importedData.extensions.kind = "array"
                THEN RecordArray(MergeExtensionListsCall(
                         importedData.extensions,
                         RecordArray(MapSeq(live, InstalledExtension))))
                ELSE RecordArray(live)
        bookmarksToDisplay ==
            IF ValueTruthy(importedData.bookmarks) /\ importedData.bookmarks.kind = "array"
                THEN MergeBookmarkTreesCall(importedData.bookmarks, ArrayOf(tree)).value
                ELSE ArrayOf(tree)
    IN  Snapshot(extensionsToDisplay, bookmarksToDisplay)

\* the slot after a loadAndDisplayImportedData that saves what it merged
\* whatever its flag says
SlotAfterLoadAlwaysSaved(slot, exts, tree, shouldSaveMergedData, saveOk) ==
    IF slot.present /\ saveOk
        THEN SlotAfterSet(slot, MergedData(slot, exts, tree))
        ELSE slot

\* the slot after loadAndDisplayImportedData has read it: written only if
\* there is imported data and shouldSaveMergedData is set.  saveOk:
\* chrome.storage.local.set ends without lastError
SlotAfterLoad(slot, exts, tree, shouldSaveMergedData, saveOk) ==
    IF slot.present /\ shouldSaveMergedData /\ saveOk
        THEN SlotAfterSet(slot, MergedData(slot, exts, tree))
        ELSE slot

\* the initial load of the DOMContentLoaded handler:
\* loadAndDisplayImportedData without shouldSaveMergedData, its rejection
\* caught and shown.  loadOk: chrome.storage.local.get ends without
\* lastError
InitialLoad ==
    /\ ops < MaxOps
    /\ \E loadOk \in BOOLEAN :
          IF ~loadOk
              THEN /\ lastOp' = Op("load", "failed", "storage", "failure")
                   /\ UNCHANGED persisted
              ELSE /\ persisted' = SlotAfterLoad(persisted, liveExtensions, liveBookmarks,
                                                 FALSE, TRUE)
                   /\ lastOp' = Op("load", "ok", "none", "success")
    /\ ops' = ops + 1
    /\ UNCHANGED <<remote, liveExtensions, liveBookmarks, pantryId, download,
                   extVars, treeVars, callVars, raceVars, timerVars>>

\* how the GET of the basket can end: fetch rejects, the response is not
\* ok, its body is not an object, or it is ok with an object as its body
Responses == {"rejected", "not ok", "not an object", "ok"}

\* a restore that takes whatever the GET brought
IsUsableResponseAlways(response) == TRUE

\* response.ok, and typeof restoredData === 'object' && restoredData !== null
IsUsableResponse(response) == response = "ok"

\* await response.json(): the basket, null for a body that is not an object
ResponseBody(response, basket) == IF response = "ok" THEN basket ELSE NoSnapshot

\* handlePantryRestore: performPantryRestore and, after the restored data
\* is saved, loadAndDisplayImportedData with shouldSaveMergedData, whose
\* promise nothing awaits or catches.  setOk, saveOk: the two
\* chrome.storage.local.set end without lastError; loadOk: the
\* chrome.storage.local.get of the reload ends without lastError
PantryRestore ==
    /\ ops < MaxOps
    /\ \E response \in IF remote.present THEN Responses ELSE Responses \ {"ok"} :
       \E setOk, loadOk, saveOk \in BOOLEAN :
          LET restoredData == SlotAfterSet(persisted, ResponseBody(response, remote))
              call == IF response = "ok" THEN "ok" ELSE "failed"
          IN  IF ~Truthy(pantryId)
                  THEN /\ lastOp' = Op("restore", "failed", "none", "failure")
                       /\ UNCHANGED persisted
              ELSE IF ~IsUsableResponse(response)
                  THEN /\ lastOp' = RemoteOp("restore", "failed", "network", "failure", call)
                       /\ UNCHANGED persisted
              ELSE IF ~setOk
                  THEN /\ lastOp' = RemoteOp("restore", "failed", "storage", "failure", call)
                       /\ UNCHANGED persisted
              ELSE IF ~loadOk
                  THEN /\ persisted' = restoredData
                       /\ lastOp' = RemoteOp("restore", "restored only", "storage", "unhandled", call)
                  ELSE /\ persisted' = SlotAfterLoad(restoredData, liveExtensions,
                                                     liveBookmarks, TRUE, saveOk)
                       /\ lastOp' = IF saveOk
                                        THEN RemoteOp("restore", "ok", "none", "success", call)
                                        ELSE RemoteOp("restore", "restored only", "storage",
                                                      "success", call)
    /\ ops' = ops + 1
    /\ UNCHANGED <<remote, liveExtensions, liveBookmarks, pantryId, download,
                   extVars, treeVars, callVars, raceVars, timerVars>>

\* addBrowserToBookmarkNodes(nodes, DETECTED_BROWSER) in Chrome: a new node
\* for every node, the key browser set on those that have a url
RECURSIVE AddBrowserToBookmarkNodes(_)
AddBrowserToBookmarkNodes(nodes) ==
    [k \in DOMAIN nodes |->
        [nodes[k] EXCEPT !.own = ByCallee,
                         !.browser = IF Truthy(nodes[k].url) THEN "chrome" ELSE @,
                         !.children = AddBrowserToBookmarkNodes(@)]]

\* exportData of exportAllData: stored data merged with the live state; a
\* TypeError when mergeBookmarkTrees raises
ExportData(storedData, exts, tree) ==
    LET installedExtensions == MapSeq(exts, InstalledExtension)
        extensionsToExport  ==
            MergeExtensionListsCall(JsOrValue(storedData.extensions, EmptyArray),
                                    RecordArray(installedExtensions))
        bookmarksToExport   ==
            MergeBookmarkTreesCall(JsOrValue(storedData.bookmarks, EmptyArray),
                                   ArrayOf(AddBrowserToBookmarkNodes(tree)))
    IN  IF bookmarksToExport.outcome = "TypeError"
            THEN [outcome |-> "TypeError", value |-> NoSnapshot]
            ELSE [outcome |-> "return",
                  value   |-> Snapshot(RecordArray(extensionsToExport), bookmarksToExport.value)]

\* the JSON file of a.click()
JsonDownload(snap) == [kind |-> "json", data |-> Serialised(snap), lines |-> <<>>]

\* the slot after an export that saves what it exports
SlotAfterExportSaved(slot, exportData) ==
    IF exportData.outcome = "return" THEN Serialised(exportData.value) ELSE slot

\* the slot after exportAllData, which has no chrome.storage.local.set
SlotAfterExport(slot, exportData) == slot

\* exportAllData, the click handler of the export button.  apiOk:
\* chrome.management.getAll ends without lastError
ExportAllData ==
    /\ ops < MaxOps
    /\ \E apiOk \in BOOLEAN :
          LET installedRaw == IF apiOk THEN liveExtensions ELSE <<>>
              exportData   == ExportData(persisted, installedRaw, liveBookmarks)
          IN  /\ IF exportData.outcome = "TypeError"
                     THEN /\ lastOp' = Op("export", "failed", "none", "failure")
                          /\ UNCHANGED download
                     ELSE /\ download' = JsonDownload(exportData.value)
                          /\ lastOp' = IF apiOk
                                           THEN Op("export", "ok", "none", "success")
                                           ELSE Op("export", "ok", "browser", "success")
              /\ persisted' = SlotAfterExport(persisted, exportData)
    /\ ops' = ops + 1
    /\ UNCHANGED <<remote, liveExtensions, liveBookmarks, pantryId,
                   extVars, treeVars, callVars, raceVars, timerVars>>

\* a stored or exported record
Record(i, n, u) ==
    [id |-> i, name |-> n, homepageUrl |-> u, updateUrl |-> Undef, storeUrl |-> Undef,
     own |-> ByCaller]

\* what chrome.bookmarks.getTree gives: the root, and below it the
\* bookmarks bar with the given children
BrowserTree(barChildren) ==
    <<Folder("0", "", <<Folder("1", "Bookmarks Bar", barChildren)>>)>>

\* values of the slot importedDataList before the first handler runs
StoredSnapshots ==
    { NoSnapshot,
      Snapshot(ArrayOf(<<RecordEntry(Record("i9", "n9", "u9")),
                         RecordEntry(Record("i1", "n0", Undef))>>),
               ArrayOf(<<Folder("0", "", <<Folder("1", "Bookmarks Bar",
                                                  <<Leaf("9", "t9", "u9")>>),
                                           Folder("2", "F", <<Leaf("8", "t8", "u8")>>)>>)>>)),
      Snapshot(ArrayOf(<<RecordEntry(Record(Undef, "n9", "u9"))>>),
               ArrayOf(<<Leaf(Undef, "t9", "u9")>>)),
      Snapshot(Undefined, PlainObject) }

\* contents of the basket before the first handler runs
RemoteSnapshots ==
    { NoSnapshot,
      Snapshot(ArrayOf(<<RecordEntry(Record("i7", "n7", "u7")),
                         RecordEntry(Record("i1", "n1", "u1"))>>),
               ArrayOf(<<Folder("0", "", <<Folder("2", "F", <<Leaf("7", "t7", "u7")>>)>>)>>)),
      Snapshot(NullValue, ArrayOf(<<>>)) }

\* what chrome.management.getAll gives
LiveExtensionLists ==
    { <<>>,
      <<LiveItem("i1", "n1", "u1", "p1", "extension"),
        LiveItem("i3", "n3", Undef, Undef, "theme")>>,
      <<LiveItem("i2", "n2", Undef, Undef, "extension")>> }

\* what chrome.bookmarks.getTree gives
LiveTrees ==
    { BrowserTree(<<>>),
      BrowserTree(<<Leaf("5", "t5", "u5"), Folder("6", "_special", <<>>),
                    Folder("4", "F", <<Leaf("3", "t3", "u3")>>)>>) }

\* the parsed contents of the file chosen for import; NoSnapshot stands for
\* contents that are not an object
Files ==
    { NoSnapshot,
      Snapshot(ArrayOf(<<RecordEntry(Record("i1", "nf", "uf")),
                         RecordEntry(Record(Undef, "n9", "u9"))>>), Undefined),
      Snapshot(ArrayOf(<<RecordEntry(Record("i6", "n6", Undef))>>), NullValue),
      Snapshot(Undefined, ArrayOf(<<>>)),
      Snapshot(ArrayOf(<<RecordEntry(Record("i6", "n6", "u9")), NullEntry>>),
               ArrayOf(<<Leaf(Undef, "tf", "uf"),
                         Folder(Undef, "F", <<Leaf(Undef, "tg", Undef)>>)>>)) }

\* the state before the first handler runs, both reconcilers idle
InitOrch ==
    /\ persisted \in StoredSnapshots
    /\ remote \in RemoteSnapshots
    /\ liveExtensions \in LiveExtensionLists
    /\ liveBookmarks \in LiveTrees
    /\ pantryId \in {Undef, "pantry"}
    /\ lastOp = NoOp
    /\ ops = 0
    /\ download = NoDownload
    /\ RaceIdle
    /\ TimerIdle
    /\ listA = <<>>
    /\ listB = <<>>
    /\ pos = 0
    /\ finalResult = <<>>
    /\ idToIndexMap = EmptyMap
    /\ urlToIndexMap = EmptyMap
    /\ matchedIndex = 0
    /\ unified = {}
    /\ extPc = "idle"
    /\ treeA = <<>>
    /\ treeB = <<>>
    /\ merged = <<>>
    /\ treePc = "idle"
    /\ CallIdle

NextOrch ==
    \/ ManualBackup
    \/ AutoBackupTick
    \/ \E file \in Files : ImportFile(file)
    \/ PantryRestore
    \/ ExportAllData
    \/ InitialLoad

\* the handlers, run one after the other
SpecOrch == InitOrch /\ [][NextOrch]_vars

-----------------------------------------------------------------------------
(* An import and a manual backup in flight at once: each handler is        *)
(* suspended at its awaits, so the other may run between its read of the   *)
(* slot and its write                                                      *)

\* importAllData up to 'const storedData = await getStoredData()'
ImportReads(file) ==
    /\ pending["import"].pc = "idle"
    /\ file.present
    /\ pending' = [pending EXCEPT !["import"] =
                      [pc |-> "read", stored |-> persisted, file |-> file, tree |-> <<>>]]
    /\ UNCHANGED <<writers, orchVars, extVars, treeVars, callVars, timerVars>>

\* the rest of importAllData: the merge, the sync of the browser and the
\* write of the slot.  setOk: chrome.storage.local.set ends without lastError
ImportWrites ==
    /\ pending["import"].pc = "read"
    /\ \E setOk \in BOOLEAN :
          LET dataToSave == DataToSave(pending["import"].file, pending["import"].stored)
          IN  /\ liveBookmarks' = SyncedBrowser(liveBookmarks, dataToSave.bookmarks)
              /\ IF setOk
                     THEN /\ persisted' = SlotAfterSet(persisted, dataToSave)
                          /\ writers' = Append(writers, "import")
                     ELSE UNCHANGED <<persisted, writers>>
    /\ pending' = [pending EXCEPT !["import"].pc = "done"]
    /\ UNCHANGED <<remote, liveExtensions, pantryId, lastOp, ops, download,
                   extVars, treeVars, callVars, timerVars>>

\* performManualBackup of backup-feature up to
\* 'const storedData = await getStoredData()'
BackupReads ==
    /\ pending["manualBackup"].pc = "idle"
    /\ Truthy(pantryId)
    /\ pending' = [pending EXCEPT !["manualBackup"] =
                      [pc |-> "read", stored |-> persisted, file |-> NoSnapshot,
                       tree |-> <<>>]]
    /\ UNCHANGED <<writers, orchVars, extVars, treeVars, callVars, timerVars>>

\* the rest of performManualBackup: the reads of the browser, the merge,
\* the POST and the write of the slot.  postOk: the POST is answered with
\* response.ok; setOk: chrome.storage.local.set ends without lastError
BackupWrites ==
    /\ pending["manualBackup"].pc = "read"
    /\ \E postOk, setOk \in BOOLEAN :
          LET backupData == MergedBackupData(pending["manualBackup"].stored,
                                             liveExtensions, liveBookmarks)
          IN  IF backupData.outcome = "TypeError" \/ ~postOk
                  THEN UNCHANGED <<persisted, remote, writers>>
                  ELSE /\ remote' = Serialised(backupData.value)
                       /\ IF setOk
                              THEN /\ persisted' = SlotAfterSet(persisted, backupData.value)
                                   /\ writers' = Append(writers, "manualBackup")
                              ELSE UNCHANGED <<persisted, writers>>
    /\ pending' = [pending EXCEPT !["manualBackup"].pc = "done",
                                  !["manualBackup"].tree = liveBookmarks]
    /\ UNCHANGED <<liveExtensions, liveBookmarks, pantryId, lastOp, ops, download,
                   extVars, treeVars, callVars, timerVars>>

\* the state before the two handlers start, both reconcilers idle
InitRace ==
    /\ persisted \in StoredSnapshots
    /\ remote = NoSnapshot
    /\ liveExtensions \in LiveExtensionLists
    /\ liveBookmarks \in LiveTrees
    /\ pantryId = "pantry"
    /\ lastOp = NoOp
    /\ ops = 0
    /\ download = NoDownload
    /\ RaceIdle
    /\ TimerIdle
    /\ listA = <<>>
    /\ listB = <<>>
    /\ pos = 0
    /\ finalResult = <<>>
    /\ idToIndexMap = EmptyMap
    /\ urlToIndexMap = EmptyMap
    /\ matchedIndex = 0
    /\ unified = {}
    /\ extPc = "idle"
    /\ treeA = <<>>
    /\ treeB = <<>>
    /\ merged = <<>>
    /\ treePc = "idle"
    /\ CallIdle

NextRace ==
    \/ \E file \in Files : ImportReads(file)
    \/ ImportWrites
    \/ BackupReads
    \/ BackupWrites

\* an import and a manual backup, their steps interleaved
SpecRace == InitRace /\ [][NextRace]_vars

-----------------------------------------------------------------------------
(* exportBookmarksAsHtml: the stored bookmarks as a Netscape bookmark file *)

\* a line of the file: its tag ("A", "H3", "DL", "/DL", "" for an empty
\* line), its text, the HREF of an A and its depth of indentation.  The
\* ADD_DATE attribute, a time stamp, is left out.
HtmlLine(tag, text, href, depth) ==
    [tag |-> tag, text |-> text, href |-> href, depth |-> depth]

\* what '' gives where lines are joined with '\n'
EmptyLine == HtmlLine("", "", "", 0)

\* title.replace(/&/g, "&amp;").replace(/</g, "&lt;").replace(/>/g, "&gt;")
\* on the titles of the model
EscapeHtml(title) ==
    CASE title = "a&b" -> "a&amp;b"
      [] title = "<b>" -> "&lt;b&gt;"
      [] OTHER         -> title

\* the concatenation of a sequence of sequences
RECURSIVE Flatten(_)
Flatten(seqs) == IF seqs = <<>> THEN <<>> ELSE Head(seqs) \o Flatten(Tail(seqs))

\* bookmarksToHtml(nodes, depth), as lines: a bookmark for a node with a
\* url, a folder block for a node with children and a title, '' for any
\* other node
RECURSIVE BookmarksToHtml(_, _)
BookmarksToHtml(nodes, depth) ==
    IF nodes = <<>> THEN <<EmptyLine>>
    ELSE Flatten([k \in DOMAIN nodes |->
            LET node == nodes[k]
            IN  IF Truthy(node.url)
                    THEN <<HtmlLine("A", IF Truthy(node.title) THEN EscapeHtml(node.title)
                                                               ELSE "Bookmark",
                                    node.url, depth)>>
                ELSE IF node.folder /\ Truthy(node.title)
                    THEN <<HtmlLine("H3", EscapeHtml(node.title), "", depth),
                           HtmlLine("DL", "", "", depth)>>
                         \o BookmarksToHtml(node.children, depth + 1)
                         \o <<HtmlLine("/DL", "", "", depth)>>
                ELSE <<EmptyLine>>])

\* node => !(node.title === "Managed bookmarks" && (!node.children ||
\* node.children.length === 0))
IsExportedTopNode(node) == ~(node.title = "Managed bookmarks" /\ node.children = <<>>)

\* the nodes exportBookmarksAsHtml converts: the stored bookmarks if they
\* are an array, and the children of their first node if that has children
ExportedNodes(storedData) ==
    LET bookmarks == IF storedData.bookmarks.kind = "array"
                         THEN storedData.bookmarks.items ELSE <<>>
    IN  IF bookmarks # <<>> /\ bookmarks[1].folder
            THEN SelectSeq(bookmarks[1].children, IsExportedTopNode)
            ELSE bookmarks

\* header + bookmarksToHtml(bookmarks) + '\n' + footer
HtmlDownload(storedData) ==
    [kind  |-> "html",
     data  |-> NoSnapshot,
     lines |-> <<HtmlLine("DL", "", "", 0)>>
               \o BookmarksToHtml(ExportedNodes(storedData), 1)
               \o <<HtmlLine("/DL", "", "", 0)>>]

\* exportBookmarksAsHtml, run on a click of the HTML export button: one
\* export per behaviour
ExportBookmarksAsHtml ==
    /\ download = NoDownload
    /\ download' = HtmlDownload(persisted)
    /\ UNCHANGED <<persisted, remote, liveExtensions, liveBookmarks, pantryId, lastOp, ops,
                   extVars, treeVars, callVars, raceVars, timerVars>>

\* bound on the number of nodes below the root of the stored forest
MaxHtmlNodes == 2

HtmlLeaves == { Leaf("5", "t5", "u5"), Leaf("6", "", "u6") }

HtmlFolderTitles == {"F", "", "a&b", "<b>", "Managed bookmarks"}

\* forests / nodes with exactly n nodes
RECURSIVE HtmlForestsOfSize(_), HtmlNodesOfSize(_)
HtmlNodesOfSize(n) ==
    IF n = 0 THEN {}
    ELSE (IF n = 1 THEN HtmlLeaves ELSE {})
         \cup {Folder("4", t, ch) : t \in HtmlFolderTitles, ch \in HtmlForestsOfSize(n - 1)}

HtmlForestsOfSize(n) ==
    IF n = 0 THEN {<<>>}
    ELSE UNION { {<<nd>> \o rest : nd \in HtmlNodesOfSize(k),
                                   rest \in HtmlForestsOfSize(n - k)} : k \in 1..n }

\* the stored forests: a root with a forest below it, as
\* chrome.bookmarks.getTree gives it and the merges keep it
HtmlForests ==
    UNION { {<<Folder("0", "", ch)>> : ch \in HtmlForestsOfSize(n)} : n \in 0..MaxHtmlNodes }

\* the state before the export, everything else idle
InitHtml ==
    /\ \E f \in HtmlForests : persisted = Snapshot(ArrayOf(<<>>), ArrayOf(f))
    /\ remote = NoSnapshot
    /\ liveExtensions = <<>>
    /\ liveBookmarks = <<>>
    /\ pantryId = Undef
    /\ lastOp = NoOp
    /\ ops = 0
    /\ download = NoDownload
    /\ RaceIdle
    /\ TimerIdle
    /\ listA = <<>>
    /\ listB = <<>>
    /\ pos = 0
    /\ finalResult = <<>>
    /\ idToIndexMap = EmptyMap
    /\ urlToIndexMap = EmptyMap
    /\ matchedIndex = 0
    /\ unified = {}
    /\ extPc = "idle"
    /\ treeA = <<>>
    /\ treeB = <<>>
    /\ merged = <<>>
    /\ treePc = "idle"
    /\ CallIdle

NextHtml == ExportBookmarksAsHtml

\* exportBookmarksAsHtml over stored forests
SpecHtml == InitHtml /\ [][NextHtml]_vars

-----------------------------------------------------------------------------
(* removeExtensionFromList: the remove button of a stored extension *)

\* ext.id of an entry of the stored array
EntryId(e) == IF e.kind = "object" THEN e.ext.id ELSE Undef

\* the entries after the first with the given id is taken out
ExtensionsWithoutFirst(items, extensionId) ==
    LET hits == {k \in DOMAIN items : EntryId(items[k]) = extensionId}
    IN  IF hits = {} THEN items
        ELSE LET first == CHOOSE k \in hits : \A h \in hits : k <= h
             IN  SubSeq(items, 1, first - 1) \o SubSeq(items, first + 1, Len(items))

\* importedData.extensions.filter(ext => ext.id !== extensionId)
ExtensionsWithout(items, extensionId) ==
    LET Keeps(e) == EntryId(e) # extensionId
    IN  SelectSeq(items, Keeps)

\* bound on the number of clicks on remove buttons
MaxRemovals == 2

\* removeExtensionFromList(extensionId).  getOk, setOk: chrome.storage.local
\* get and set end without lastError.  A null entry makes the filter throw
\* inside the callback of get, and the promise is never settled ("hung")
RemoveExtensionFromList(extensionId) ==
    /\ ops < MaxRemovals
    /\ \E getOk, setOk \in BOOLEAN :
          LET ended(o, f, t) == [Op("remove", o, f, t) EXCEPT !.extensionId = extensionId]
              items     == persisted.extensions.items
              remaining == ExtensionsWithout(items, extensionId)
          IN  IF ~getOk
                  THEN /\ lastOp' = ended("rejected", "storage", "failure")
                       /\ UNCHANGED persisted
              ELSE IF ~persisted.present \/ ~ValueTruthy(persisted.extensions)
                                         \/ persisted.extensions.kind # "array"
                  THEN /\ lastOp' = ended("false", "none", "failure")
                       /\ UNCHANGED persisted
              ELSE IF \E k \in DOMAIN items : items[k].kind = "null"
                  THEN /\ lastOp' = ended("hung", "none", "unhandled")
                       /\ UNCHANGED persisted
              ELSE IF Len(remaining) = Len(items)
                  THEN /\ lastOp' = ended("false", "none", "failure")
                       /\ UNCHANGED persisted
              ELSE IF ~setOk
                  THEN /\ lastOp' = ended("rejected", "storage", "failure")
                       /\ UNCHANGED persisted
                  ELSE /\ persisted' = SlotAfterSet(persisted,
                                           Snapshot(ArrayOf(remaining), persisted.bookmarks))
                       /\ lastOp' = ended("true", "none", "success")
    /\ ops' = ops + 1
    /\ UNCHANGED <<remote, liveExtensions, liveBookmarks, pantryId, download,
                   extVars, treeVars, callVars, raceVars, timerVars>>

\* bound on the number of entries of the stored extension list
MaxRemoveEntries == 3

\* the ids of the remove buttons
RemoveIds == {"i1", "i2", "i3"}

\* the entries of stored lists: records, two of them with the same id and
\* one without id, and null
RemoveEntries ==
    {RecordEntry(r) : r \in {Record("i1", "n1", "u1"), Record("i1", "n2", Undef),
                             Record("i2", "n2", "u2"), Record(Undef, "n3", "u3")}}
        \cup {NullEntry}

\* the values of importedDataList: none, one without extensions, one whose
\* extensions are not an array, and lists of entries with bookmarks
RemoveSlots ==
    {NoSnapshot, Snapshot(Undefined, ArrayOf(<<Leaf("5", "t5", "u5")>>)),
     Snapshot(PlainObject, Undefined)}
        \cup {Snapshot(ArrayOf(l), ArrayOf(<<Leaf("5", "t5", "u5")>>)) :
                 l \in SeqsUpTo(RemoveEntries, MaxRemoveEntries)}

\* the state before the first click, everything else idle
InitRemove ==
    /\ persisted \in RemoveSlots
    /\ remote = NoSnapshot
    /\ liveExtensions = <<>>
    /\ liveBookmarks = <<>>
    /\ pantryId = Undef
    /\ lastOp = NoOp
    /\ ops = 0
    /\ download = NoDownload
    /\ RaceIdle
    /\ TimerIdle
    /\ listA = <<>>
    /\ listB = <<>>
    /\ pos = 0
    /\ finalResult = <<>>
    /\ idToIndexMap = EmptyMap
    /\ urlToIndexMap = EmptyMap
    /\ matchedIndex = 0
    /\ unified = {}
    /\ extPc = "idle"
    /\ treeA = <<>>
    /\ treeB = <<>>
    /\ merged = <<>>
    /\ treePc = "idle"
    /\ CallIdle

NextRemove == \E extensionId \in RemoveIds : RemoveExtensionFromList(extensionId)

\* clicks on remove buttons
SpecRemove == InitRemove /\ [][NextRemove]_vars

-----------------------------------------------------------------------------
(* The auto-backup timer of the popup *)

\* bound on the number of change events of the two controls
MaxChanges == 2

\* the values of the select backup-interval-select
Intervals == {60000, 300000}

\* the popup after startAutoBackup(interval, browserName): clearInterval of
\* the timer made last, if any, and a new timer from setInterval
StartAutoBackup(p, interval) ==
    [p EXCEPT !.intervals = {t \in p.intervals : t.id # p.autoBackupTimerId}
                               \cup {[id |-> p.timerCount + 1, interval |-> interval]},
              !.autoBackupTimerId = p.timerCount + 1,
              !.timerCount = p.timerCount + 1]

\* the popup after stopAutoBackup()
StopAutoBackup(p) ==
    [p EXCEPT !.intervals = {t \in p.intervals : t.id # p.autoBackupTimerId},
              !.autoBackupTimerId = 0]

\* the promise of import('./components/backup-handler.js') resolves
ImportResolves ==
    /\ popup.settingsPc # "idle"
    /\ popup.performManualBackupHandler = Null
    /\ popup' = [popup EXCEPT !.performManualBackupHandler = "performManualBackup"]
    /\ UNCHANGED <<extVars, treeVars, callVars, orchVars, raceVars>>

\* setTimeout(loadAutoBackupSettings, 300) fires: chrome.storage.local.get
\* is called
LoadAutoBackupSettings ==
    /\ popup.settingsPc = "timeout"
    /\ popup' = [popup EXCEPT !.settingsPc = "reading",
                              !.readResult = popup.storedSettings]
    /\ UNCHANGED <<extVars, treeVars, callVars, orchVars, raceVars>>

\* the callback of that chrome.storage.local.get
SettingsRead ==
    /\ popup.settingsPc = "reading"
    /\ LET shown == [popup EXCEPT
                        !.settingsPc = "done",
                        !.autoBackupToggle = popup.readResult.autoBackupEnabled,
                        !.backupIntervalSelect = popup.readResult.autoBackupInterval]
       IN  popup' = IF popup.readResult.autoBackupEnabled
                         /\ Truthy(popup.performManualBackupHandler)
                        THEN StartAutoBackup(shown, popup.readResult.autoBackupInterval)
                        ELSE shown
    /\ UNCHANGED <<extVars, treeVars, callVars, orchVars, raceVars>>

\* what both change listeners do: saveAutoBackupSettings, then start or stop
SaveAndApply(p, enabled, interval) ==
    LET saved == [p EXCEPT !.storedSettings = Settings(enabled, interval)]
    IN  IF enabled THEN StartAutoBackup(saved, interval) ELSE StopAutoBackup(saved)

\* the change listener of the toggle, after the user flipped it
ToggleChange ==
    /\ popup.settingsPc # "idle"
    /\ popup.changes < MaxChanges
    /\ popup' = SaveAndApply([popup EXCEPT !.changes = @ + 1,
                                           !.autoBackupToggle = ~@],
                             ~popup.autoBackupToggle, popup.backupIntervalSelect)
    /\ UNCHANGED <<extVars, treeVars, callVars, orchVars, raceVars>>

\* the change listener of the select, after the user chose another interval
IntervalChange(interval) ==
    /\ popup.settingsPc # "idle"
    /\ popup.changes < MaxChanges
    /\ interval # popup.backupIntervalSelect
    /\ popup' = SaveAndApply([popup EXCEPT !.changes = @ + 1,
                                           !.backupIntervalSelect = interval],
                             popup.autoBackupToggle, interval)
    /\ UNCHANGED <<extVars, treeVars, callVars, orchVars, raceVars>>

\* the popup right after DOMContentLoaded: the import and the timeout are
\* pending, the controls are as the page declares them, the settings are
\* any that an earlier popup saved
InitTimer ==
    /\ \E enabled \in BOOLEAN, interval, selected \in Intervals :
          popup = [performManualBackupHandler |-> Null,
                   autoBackupTimerId          |-> 0,
                   intervals                  |-> {},
                   timerCount                 |-> 0,
                   settingsPc                 |-> "timeout",
                   readResult                 |-> Settings(FALSE, 300000),
                   storedSettings             |-> Settings(enabled, interval),
                   autoBackupToggle           |-> FALSE,
                   backupIntervalSelect       |-> selected,
                   changes                    |-> 0]
    /\ persisted = NoSnapshot
    /\ remote = NoSnapshot
    /\ liveExtensions = <<>>
    /\ liveBookmarks = <<>>
    /\ pantryId = Undef
    /\ lastOp = NoOp
    /\ ops = 0
    /\ download = NoDownload
    /\ RaceIdle
    /\ listA = <<>>
    /\ listB = <<>>
    /\ pos = 0
    /\ finalResult = <<>>
    /\ idToIndexMap = EmptyMap
    /\ urlToIndexMap = EmptyMap
    /\ matchedIndex = 0
    /\ unified = {}
    /\ extPc = "idle"
    /\ treeA = <<>>
    /\ treeB = <<>>
    /\ merged = <<>>
    /\ treePc = "idle"
    /\ CallIdle

NextTimer ==
    \/ ImportResolves
    \/ LoadAutoBackupSettings
    \/ SettingsRead
    \/ ToggleChange
    \/ \E interval \in Intervals : IntervalChange(interval)

\* the popup's auto-backup start-up and controls, in every interleaving
SpecTimer == InitTimer /\ [][NextTimer]_vars

-----------------------------------------------------------------------------
(* Properties of mergeExtensionLists *)

\* the slots of the result
Slots == DOMAIN finalResult

\* the positions of the combined input
Positions == 1..Len(Combined)

\* a forEach iteration is about to run
AtRecord == extPc = "loop" /\ pos < Len(Combined)

\* C1: in the returned list no two records share the same non-empty id,
\* whatever repetitions of ids or homepage URLs the input lists contain.
NoDuplicateId ==
    extPc = "done" =>
        \A s, t \in Slots :
            (s # t /\ Truthy(finalResult[s].id)) => finalResult[s].id # finalResult[t].id

\* C1 witness: the inputs repeat an id and a homepage URL, a record was
\* unified, and the returned list still holds two records.
NoDuplicateIdWitness ==
    /\ extPc = "done"
    /\ unified # {}
    /\ Len(finalResult) >= 2
    /\ \E p, q \in Positions :
          p # q /\ Truthy(Combined[p].id) /\ Combined[p].id = Combined[q].id
    /\ \E p, q \in Positions :
          /\ p # q /\ Truthy(Combined[p].homepageUrl)
          /\ Combined[p].homepageUrl = Combined[q].homepageUrl
          /\ Combined[p].id # Combined[q].id

\* C2: in the returned list no two distinct records share the same
\* non-empty homepageUrl.
NoDuplicateHomepageUrl ==
    extPc = "done" =>
        \A s, t \in Slots :
            (s # t /\ Truthy(finalResult[s].homepageUrl))
                => finalResult[s].homepageUrl # finalResult[t].homepageUrl

\* C3: every non-empty id of a record of either input list is the id of
\* a record of the returned list.
KeepsAllIds ==
    extPc = "done" =>
        \A p \in Positions :
            Truthy(Combined[p].id) =>
                \E s \in Slots : finalResult[s].id = Combined[p].id

\* the record has a name: its name is neither undefined nor null
HasName(ext) == ext.name # Undef /\ ext.name # Null

\* C4 as stated: if base holds a record with id x and incoming holds a
\* record with id x and a name, the returned list holds exactly one record
\* with id x and its name is that incoming record's name.
IncomingNameWinsInResult ==
    extPc = "done" =>
        \A a \in 1..Len(listA), b \in 1..Len(listB) :
            (Truthy(listA[a].id) /\ listB[b].id = listA[a].id /\ HasName(listB[b]))
                => /\ Cardinality({s \in Slots : finalResult[s].id = listA[a].id}) = 1
                   /\ \A s \in Slots :
                         finalResult[s].id = listA[a].id => finalResult[s].name = listB[b].name

\* C4 amended: when an incoming record with id x and a name is processed
\* while the result holds a record with id x, then right after that step
\* the result holds exactly one record with id x, its name is that incoming
\* record's name, and no entry was appended.
IncomingNameWinsAtStep ==
    [][ (/\ AtRecord
         /\ IsFromListB
         /\ Truthy(CurrentExtCopy.id)
         /\ HasName(CurrentExtCopy)
         /\ \E s \in Slots : finalResult[s].id = CurrentExtCopy.id)
        => (/\ Len(finalResult') = Len(finalResult)
            /\ Cardinality({s \in Slots : finalResult'[s].id = CurrentExtCopy.id}) = 1
            /\ \A s \in Slots :
                  finalResult'[s].id = CurrentExtCopy.id
                      => finalResult'[s].name = CurrentExtCopy.name) ]_vars

\* C4 witness: the record just processed is an incoming record with an id
\* and a name that differs from the name of the base record with that id,
\* and it was unified into the slot that holds its id.
IncomingNameWinsWitness ==
    /\ pos > Len(listA)
    /\ matchedIndex # 0
    /\ Truthy(Combined[pos].id)
    /\ HasName(Combined[pos])
    /\ finalResult[matchedIndex].id = Combined[pos].id
    /\ finalResult[matchedIndex].name = Combined[pos].name
    /\ \E a \in 1..Len(listA) :
          listA[a].id = Combined[pos].id /\ listA[a].name # Combined[pos].name

\* the value the unification rule of the specification gives a field:
\* the preferred side's value when present and non-empty, else the base's
PreferredIfNonEmpty(p, b) == IF Truthy(p) THEN p ELSE b

\* C5: when a record is unified with an occupied slot, the merged record's
\* name, homepageUrl and updateUrl each equal the preferred side's value if
\* that value is neither undefined, null nor "", and the base side's value
\* otherwise.
UnifiedFieldsPreferNonEmpty ==
    [][ (AtRecord /\ ResolveSlot(CurrentExtCopy, idToIndexMap, urlToIndexMap) # 0)
        => LET m         == ResolveSlot(CurrentExtCopy, idToIndexMap, urlToIndexMap)
               baseExt   == IF IsFromListB THEN finalResult[m] ELSE CurrentExtCopy
               preferred == IF IsFromListB THEN CurrentExtCopy ELSE finalResult[m]
           IN  \A k \in {"name", "homepageUrl", "updateUrl"} :
                   finalResult'[m][k] = PreferredIfNonEmpty(preferred[k], baseExt[k]) ]_vars

\* the record a base record a and an id-less incoming record c unify to
UnifiedPair(a, c) ==
    [id          |-> a.id,
     homepageUrl |-> a.homepageUrl,
     name        |-> IF HasName(c) THEN c.name ELSE a.name,
     updateUrl   |-> IF c.updateUrl # Undef /\ c.updateUrl # Null THEN c.updateUrl ELSE a.updateUrl,
     storeUrl    |-> IF c.storeUrl # Undef THEN c.storeUrl ELSE a.storeUrl,
     own         |-> ByCallee]

\* base position a holds an id and a homepageUrl, incoming position c holds
\* the same homepageUrl and no id
IdlessUrlPair(a, c) ==
    /\ a \in 1..Len(listA)
    /\ c \in 1..Len(listB)
    /\ Truthy(listA[a].id)
    /\ Truthy(listA[a].homepageUrl)
    /\ listB[c].id = Undef
    /\ listB[c].homepageUrl = listA[a].homepageUrl

\* C6 as stated: if base holds a record with id i and homepageUrl u and an
\* incoming record has no id and homepageUrl u, the returned list holds one
\* record for the two, with id i, homepageUrl u, the incoming record's name
\* (when it has one) and the base record's fields the incoming record does
\* not define.
IdlessIncomingUnifiedByUrl ==
    extPc = "done" =>
        \A a \in 1..Len(listA), c \in 1..Len(listB) :
            IdlessUrlPair(a, c) =>
                /\ Cardinality({s \in Slots :
                        finalResult[s].homepageUrl = listA[a].homepageUrl}) = 1
                /\ \E s \in Slots :
                      /\ finalResult[s].id = listA[a].id
                      /\ finalResult[s].homepageUrl = listA[a].homepageUrl
                      /\ HasName(listB[c]) => finalResult[s].name = listB[c].name
                      /\ listB[c].storeUrl = Undef => finalResult[s].storeUrl = listA[a].storeUrl
                      /\ listB[c].updateUrl = Undef => finalResult[s].updateUrl = listA[a].updateUrl

\* no record other than base position a and incoming position c has the id
\* or the homepageUrl of the base record at a
NoOtherSharesKey(a, c) ==
    \A p \in Positions :
        (p # a /\ p # Len(listA) + c) =>
            /\ Combined[p].id # listA[a].id
            /\ Combined[p].homepageUrl # listA[a].homepageUrl

\* C6 amended: if moreover no other record of either list has id i or
\* homepageUrl u, the returned list holds exactly one record with id i or
\* homepageUrl u, and that record has id i, homepageUrl u, the incoming
\* record's name if it has one (else the base record's) and, for every
\* other field, the incoming value if defined and the base value if not.
IdlessIncomingUnifiedWhenAlone ==
    extPc = "done" =>
        \A a \in 1..Len(listA), c \in 1..Len(listB) :
            (IdlessUrlPair(a, c) /\ NoOtherSharesKey(a, c)) =>
                /\ Cardinality({s \in Slots :
                        \/ finalResult[s].id = listA[a].id
                        \/ finalResult[s].homepageUrl = listA[a].homepageUrl}) = 1
                /\ \E s \in Slots : finalResult[s] = UnifiedPair(listA[a], listB[c])

\* C6 witness: such a pair was merged next to a third record, and the
\* incoming record of the pair brought a name and left storeUrl undefined
\* where the base record defines it.
IdlessIncomingUnifiedWitness ==
    /\ extPc = "done"
    /\ Len(Combined) = 3
    /\ Len(finalResult) = 2
    /\ \E a \in 1..Len(listA), c \in 1..Len(listB) :
          /\ IdlessUrlPair(a, c)
          /\ NoOtherSharesKey(a, c)
          /\ HasName(listB[c])
          /\ listB[c].name # listA[a].name
          /\ listB[c].storeUrl = Undef
          /\ listA[a].storeUrl # Undef
          /\ \E s \in Slots : finalResult[s] = UnifiedPair(listA[a], listB[c])

\* C7: once a record has been unified into slot s, every later record whose
\* id equals the id held by slot s, or whose homepageUrl equals the
\* non-empty homepageUrl held by slot s, is unified into slot s: it is not
\* appended and not unified into another slot.
LaterRecordResolvesToSameSlot ==
    [][ AtRecord =>
          \A s \in unified :
              ( \/ (Truthy(CurrentExtCopy.id) /\ CurrentExtCopy.id = finalResult[s].id)
                \/ (Truthy(CurrentExtCopy.homepageUrl)
                      /\ CurrentExtCopy.homepageUrl = finalResult[s].homepageUrl) )
                  => matchedIndex' = s ]_vars

\* the record has neither an id nor a non-empty homepageUrl
Keyless(ext) ==
    /\ ext.id \in {Undef, Null, ""}
    /\ ext.homepageUrl \in {Undef, Null, ""}

\* C16: a record that has neither an id nor a non-empty homepageUrl is
\* always placed in the result as its own entry.  After every iteration
\* the result holds as many records without keys as the records processed
\* so far, each as often as the input holds it, and no slot a record was
\* unified into holds one.
KeylessRecordsAreOwnEntries ==
    LET done == {p \in Positions : p <= pos}
    IN  /\ Cardinality({s \in Slots : Keyless(finalResult[s])})
              = Cardinality({p \in done : Keyless(Combined[p])})
        /\ \A q \in done :
              Keyless(Combined[q]) =>
                  Cardinality({s \in Slots : finalResult[s] = JsonCopyExt(Combined[q])})
                      = Cardinality({p \in done : Combined[p] = Combined[q]})
        /\ \A s \in unified : ~Keyless(finalResult[s])

\* C16 witness: base and incoming each hold the same record without keys,
\* its homepageUrl empty, base holds a record with keys as well, and the
\* returned list holds three records, the record without keys twice.
KeylessRecordsWitness ==
    /\ extPc = "done"
    /\ Len(listA) = 2 /\ Len(listB) = 1
    /\ Keyless(listA[1])
    /\ ~Keyless(listA[2])
    /\ listB[1] = listA[1]
    /\ listA[1].homepageUrl = ""
    /\ Len(finalResult) = 3
    /\ Cardinality({s \in Slots : finalResult[s] = JsonCopyExt(listA[1])}) = 2

-----------------------------------------------------------------------------
(* Properties of mergeBookmarkTrees *)

\* the node is a leaf: it has no children and a non-empty url
IsLeaf(n) == ~n.folder /\ Truthy(n.url)

\* at every level of the forest, no two sibling folders have the same title
RECURSIVE NoSiblingFolderDup(_)
NoSiblingFolderDup(f) ==
    /\ \A j, k \in DOMAIN f :
          (j # k /\ f[j].folder /\ f[k].folder) => f[j].title # f[k].title
    /\ \A k \in DOMAIN f : NoSiblingFolderDup(f[k].children)

\* at every level of the forest, no two sibling leaves have the same
\* (url, title) pair
RECURSIVE NoSiblingLeafDup(_)
NoSiblingLeafDup(f) ==
    /\ \A j, k \in DOMAIN f :
          (j # k /\ IsLeaf(f[j]) /\ IsLeaf(f[k]))
              => (f[j].url # f[k].url \/ f[j].title # f[k].title)
    /\ \A k \in DOMAIN f : NoSiblingLeafDup(f[k].children)

\* every node of the forest is a folder or a leaf
RECURSIVE OnlyLeavesAndFolders(_)
OnlyLeavesAndFolders(f) ==
    \A k \in DOMAIN f :
        (f[k].folder \/ IsLeaf(f[k])) /\ OnlyLeavesAndFolders(f[k].children)

\* the number of nodes of the forest
RECURSIVE NodeCount(_)
NodeCount(f) ==
    IF f = <<>> THEN 0 ELSE 1 + NodeCount(Head(f).children) + NodeCount(Tail(f))

\* C8 as stated: for every forest T, mergeBookmarkTrees(T, T) equals T
\* (as a value: it is a deep copy of T).
SelfMergeIsIdentity ==
    (treePc = "done" /\ treeB = treeA) => merged = JsonCopyForest(treeA)

\* C8 amended: mergeBookmarkTrees(T, T) equals T for every forest T in
\* which no two sibling folders share a title and every node is a folder
\* or a leaf with a non-empty url.
SelfMergeIsIdentityOnCleanForest ==
    (treePc = "done" /\ treeB = treeA
        /\ NoSiblingFolderDup(treeA) /\ OnlyLeavesAndFolders(treeA))
        => merged = JsonCopyForest(treeA)

\* C8 witness: a forest with a leaf, a nested folder and three nodes was
\* merged with itself and came back unchanged.
SelfMergeWitness ==
    /\ treePc = "done"
    /\ treeB = treeA
    /\ NoSiblingFolderDup(treeA)
    /\ OnlyLeavesAndFolders(treeA)
    /\ NodeCount(treeA) = 3
    /\ Len(treeA) = 2
    /\ \E k \in DOMAIN treeA : IsLeaf(treeA[k])
    /\ \E k \in DOMAIN treeA : treeA[k].folder /\ treeA[k].children # <<>>
    /\ merged = JsonCopyForest(treeA)

\* C9 as stated: in every returned forest, at every level, no two sibling
\* folders have the same title.
MergedHasNoSiblingFolderDup ==
    treePc = "done" => NoSiblingFolderDup(merged)

\* C9 amended: if neither input forest has two sibling folders with the
\* same title at any level, the returned forest has none either.
MergedKeepsNoSiblingFolderDup ==
    (treePc = "done" /\ NoSiblingFolderDup(treeA) /\ NoSiblingFolderDup(treeB))
        => NoSiblingFolderDup(merged)

\* C9 witness: base and incoming, both free of sibling folders with the
\* same title, each hold a top-level folder of the same title with a
\* child, and the returned forest holds one folder of that title.
MergedFolderDupWitness ==
    /\ treePc = "done"
    /\ treeB # treeA
    /\ NoSiblingFolderDup(treeA)
    /\ NoSiblingFolderDup(treeB)
    /\ \E j \in DOMAIN treeA, k \in DOMAIN treeB :
          /\ treeA[j].folder /\ treeB[k].folder
          /\ treeA[j].title = treeB[k].title
          /\ treeA[j].children # <<>>
          /\ treeB[k].children # <<>>
          /\ Cardinality({m \in DOMAIN merged :
                 merged[m].folder /\ merged[m].title = treeA[j].title}) = 1

\* the number of children of folder node n that are leaves with the url
\* and title of leaf l
Occurrences(n, l) ==
    Cardinality({k \in DOMAIN n.children :
        IsLeaf(n.children[k]) /\ n.children[k].url = l.url /\ n.children[k].title = l.title})

\* top-level folder j of the base forest and top-level folder k of the
\* incoming forest have the same title and both hold leaf l
SharedLeaf(j, k, l) ==
    /\ treeA[j].folder /\ treeB[k].folder
    /\ treeA[j].title = treeB[k].title
    /\ IsLeaf(l)
    /\ Occurrences(treeA[j], l) >= 1
    /\ Occurrences(treeB[k], l) >= 1

\* a leaf that base folder j and incoming folder k share occurs exactly
\* once under folder j of the returned forest
SharedLeafOccursOnce ==
    \A j \in DOMAIN treeA, k \in DOMAIN treeB :
        \A c \in DOMAIN treeA[j].children :
            SharedLeaf(j, k, treeA[j].children[c])
                => /\ merged[j].folder
                   /\ merged[j].title = treeA[j].title
                   /\ Occurrences(merged[j], treeA[j].children[c]) = 1

\* C10 as stated: a leaf already under folder F of the base forest and
\* under F of the incoming forest occurs exactly once under F of the
\* returned forest, and no two sibling leaves of a returned forest have
\* the same (url, title) pair.
MergedHasNoSiblingLeafDup ==
    treePc = "done" => (SharedLeafOccursOnce /\ NoSiblingLeafDup(merged))

\* C10 amended: if neither input forest has two sibling leaves with the
\* same (url, title) pair at any level, the returned forest has none
\* either; and if moreover no two sibling folders of the incoming forest
\* share a title, a leaf under top-level folder F of the base forest and
\* under F of the incoming forest occurs exactly once under F of the
\* returned forest.
MergedKeepsNoSiblingLeafDup ==
    (treePc = "done" /\ NoSiblingLeafDup(treeA) /\ NoSiblingLeafDup(treeB))
        => /\ NoSiblingLeafDup(merged)
           /\ NoSiblingFolderDup(treeB) => SharedLeafOccursOnce

\* C10 witness: a leaf is under a top-level folder of the base forest,
\* next to a second child, and under the folder of that title of the
\* incoming forest; the returned folder holds the two children, the leaf
\* once.
MergedLeafDupWitness ==
    /\ treePc = "done"
    /\ treeB # treeA
    /\ NoSiblingLeafDup(treeA)
    /\ NoSiblingLeafDup(treeB)
    /\ NoSiblingFolderDup(treeB)
    /\ \E j \in DOMAIN treeA, k \in DOMAIN treeB :
          /\ treeA[j].title # "Bookmarks Bar"
          /\ Len(treeA[j].children) = 2
          /\ SharedLeaf(j, k, treeA[j].children[2])
          /\ Len(merged[j].children) = 2
          /\ Occurrences(merged[j], treeA[j].children[2]) = 1

\* the first folder of forest f whose title is t is at position j
IsFirstFolderTitled(f, j, t) ==
    /\ j \in DOMAIN f
    /\ f[j].folder /\ f[j].title = t
    /\ \A h \in 1..(j - 1) : ~(f[h].folder /\ f[h].title = t)

\* nodes m and n are the same node but for their children
SameNodeButChildren(m, n) ==
    /\ m.id = n.id /\ m.title = n.title /\ m.url = n.url /\ m.folder = n.folder
    /\ (~n.folder => m.children = n.children)

\* node n is present in the list of siblings f: as a leaf with its url and
\* title, as a folder with its title, or (no url, no children) as itself
PresentIn(f, n) ==
    \E c \in DOMAIN f :
        /\ f[c].folder = n.folder /\ f[c].title = n.title
        /\ (~n.folder => f[c].url = n.url)

\* the children of the returned folder res are the children of the base
\* folder old in their order, followed by children of incoming folders of
\* its title that were not present before them
ChildrenExtended(res, old) ==
    /\ Len(res.children) >= Len(old.children)
    /\ \A c \in DOMAIN old.children :
          SameNodeButChildren(res.children[c], old.children[c])
    /\ \A c \in (Len(old.children) + 1)..Len(res.children) :
          /\ \E k \in DOMAIN treeB : \E d \in DOMAIN treeB[k].children :
                 /\ treeB[k].folder /\ treeB[k].title = old.title
                 /\ SameNodeButChildren(res.children[c], treeB[k].children[d])
          /\ (res.children[c].folder \/ IsLeaf(res.children[c]))
                => ~PresentIn(SubSeq(res.children, 1, c - 1), res.children[c])

\* C11: when an incoming top-level folder has the title, other than
\* "Bookmarks Bar", of a base top-level folder, the returned forest holds
\* no additional folder of that title; the first base folder of that title
\* keeps its id; its children are the base folder's children in their
\* original order (none removed), followed by incoming children that were
\* not already present; and every child of the incoming folder is present.
MatchedFolderChildrenAreUnion ==
    treePc = "done" =>
        \A j \in DOMAIN treeA, k \in DOMAIN treeB :
            ( /\ treeB[k].folder
              /\ treeB[k].title # "Bookmarks Bar"
              /\ IsFirstFolderTitled(treeA, j, treeB[k].title) )
            => /\ Cardinality({m \in DOMAIN merged :
                       merged[m].folder /\ merged[m].title = treeB[k].title})
                  = Cardinality({m \in DOMAIN treeA :
                       treeA[m].folder /\ treeA[m].title = treeB[k].title})
               /\ merged[j].folder
               /\ merged[j].id = treeA[j].id
               /\ merged[j].title = treeA[j].title
               /\ ChildrenExtended(merged[j], treeA[j])
               /\ \A c \in DOMAIN treeB[k].children :
                      PresentIn(merged[j].children, treeB[k].children[c])

\* C11 witness: a base folder with two children was matched by an incoming
\* folder of its title with a child the base folder did not have, and the
\* returned folder holds the two base children followed by that child.
MatchedFolderUnionWitness ==
    /\ treePc = "done"
    /\ treeB # treeA
    /\ \E j \in DOMAIN treeA, k \in DOMAIN treeB :
          /\ treeB[k].folder
          /\ treeB[k].title # "Bookmarks Bar"
          /\ IsFirstFolderTitled(treeA, j, treeB[k].title)
          /\ Len(treeA[j].children) = 2
          /\ Len(treeB[k].children) = 1
          /\ ~PresentIn(treeA[j].children, treeB[k].children[1])
          /\ Len(merged[j].children) = 3
          /\ merged[j].children[3] = JsonCopyNode(treeB[k].children[1])
          /\ merged[j].id = "a"

\* C12 as stated: when an incoming top-level folder titled "Bookmarks Bar"
\* matches a base top-level folder of that title, the children of the
\* returned folder are exactly the incoming folder's children.
BookmarksBarChildrenReplaced ==
    treePc = "done" =>
        \A j \in DOMAIN treeA, k \in DOMAIN treeB :
            ( /\ treeB[k].folder
              /\ treeB[k].title = "Bookmarks Bar"
              /\ IsFirstFolderTitled(treeA, j, "Bookmarks Bar") )
            => merged[j].children = JsonCopyForest(treeB[k].children)

\* the forest has exactly one top-level folder titled "Bookmarks Bar"
OneBookmarksBar(f) ==
    Cardinality({k \in DOMAIN f : f[k].folder /\ f[k].title = "Bookmarks Bar"}) = 1

\* C12 amended: when the incoming forest has exactly one top-level folder
\* titled "Bookmarks Bar" and the base forest has a top-level folder of
\* that title, the first such base folder keeps its id and its children in
\* the returned forest are exactly the incoming folder's children.
BookmarksBarChildrenReplacedByOnlyBar ==
    (treePc = "done" /\ OneBookmarksBar(treeB)) =>
        \A j \in DOMAIN treeA, k \in DOMAIN treeB :
            ( /\ treeB[k].folder
              /\ treeB[k].title = "Bookmarks Bar"
              /\ IsFirstFolderTitled(treeA, j, "Bookmarks Bar") )
            => /\ merged[j].children = JsonCopyForest(treeB[k].children)
               /\ merged[j].id = treeA[j].id
               /\ merged[j].folder

\* C12 witness: the base "Bookmarks Bar" folder held two children that the
\* only incoming "Bookmarks Bar" folder does not hold, and the returned
\* folder holds the incoming folder's one child only.
BookmarksBarReplacedWitness ==
    /\ treePc = "done"
    /\ treeB # treeA
    /\ OneBookmarksBar(treeB)
    /\ \E j \in DOMAIN treeA, k \in DOMAIN treeB :
          /\ treeB[k].folder
          /\ treeB[k].title = "Bookmarks Bar"
          /\ IsFirstFolderTitled(treeA, j, "Bookmarks Bar")
          /\ Len(treeA[j].children) = 2
          /\ Len(treeB[k].children) = 1
          /\ \A c \in DOMAIN treeA[j].children :
                 ~PresentIn(treeB[k].children, treeA[j].children[c])
          /\ merged[j].children = JsonCopyForest(treeB[k].children)

-----------------------------------------------------------------------------
(* Properties of the reconcilers called with arbitrary JavaScript values *)

\* no object of the forest, at any depth, was allocated by the caller
RECURSIVE NoCallerObject(_)
NoCallerObject(f) ==
    \A k \in DOMAIN f : f[k].own # ByCaller /\ NoCallerObject(f[k].children)

\* C13: neither reconciler changes its arguments or shares structure with
\* them: in every step of a call both arguments stay as they are at every
\* depth, the value mergeBookmarkTrees returns is not an object of the
\* caller and holds none at any depth, and no record of the array that
\* mergeExtensionLists builds is an object of the caller.  Every write of
\* the two functions goes to an object of the result under construction
\* (target, existingFolderInTarget, finalResult, mergedExt), so a result
\* free of the caller's objects leaves no way to change an argument, during
\* the call or through the result afterwards.
ReconcilersShareNothingWithArguments ==
    [][ /\ argA' = argA
        /\ argB' = argB
        /\ ret'.outcome = "return"
              => (ret'.value.own # ByCaller /\ NoCallerObject(ret'.value.items))
        /\ \A s \in DOMAIN finalResult' : finalResult'[s].own = ByCallee ]_vars

\* C13 witness: mergeBookmarkTrees returned for two arrays whose folders
\* of one title were merged, the folder holding a child from each side,
\* and every object of both arguments is the caller's while no object of
\* the returned forest is.
SharesNothingWitness ==
    /\ callPc = "returned"
    /\ argA.kind = "array" /\ argB.kind = "array"
    /\ Len(argA.items) = 1 /\ Len(argB.items) = 1
    /\ argA.items[1].folder /\ argB.items[1].folder
    /\ argA.items[1].title = "F" /\ argB.items[1].title = "F"
    /\ Len(argA.items[1].children) = 1 /\ Len(argB.items[1].children) = 1
    /\ argA.items[1].own = ByCaller /\ argA.items[1].children[1].own = ByCaller
    /\ argB.items[1].own = ByCaller /\ argB.items[1].children[1].own = ByCaller
    /\ Len(ret.value.items) = 1
    /\ Len(ret.value.items[1].children) = 2
    /\ ret.value.own = ByCallee
    /\ NoCallerObject(ret.value.items)

\* the list a value stands for when a value that is not an array is
\* treated as an empty list
AsForest(x) == IF x.kind = "array" THEN x.items ELSE <<>>

\* C14: mergeBookmarkTrees never raises on malformed input: when base or
\* incoming is not an array it is treated as an empty list, and the call
\* returns an array.
NonArrayForestIsEmptyList ==
    (callPc \in {"returned", "raised"} /\ (argA.kind # "array" \/ argB.kind # "array"))
        => /\ ret.outcome = "return"
           /\ ret.value.kind = "array"
           /\ ret.value.items = MergeBookmarkTreesOf(AsForest(argA), AsForest(argB))

\* the records among the entries of an array, in their order; none for a
\* value that is not an array
RECURSIVE RecordsAmong(_)
RecordsAmong(entries) ==
    IF entries = <<>> THEN <<>>
    ELSE IF Head(entries).kind = "object"
             THEN <<Head(entries).ext>> \o RecordsAmong(Tail(entries))
             ELSE RecordsAmong(Tail(entries))

WellFormedRecords(x) == IF x.kind = "array" THEN RecordsAmong(x.items) ELSE <<>>

\* C15: mergeExtensionLists never raises on malformed input: an argument
\* that is not an array is treated as an empty list, entries that are not
\* objects are ignored, every iteration of the forEach can run, and the
\* returned array is the one built from the well-formed records only.
MalformedRecordInputIsIgnored ==
    callPc = "entered" =>
        /\ listA = WellFormedRecords(argA)
        /\ listB = WellFormedRecords(argB)
        /\ \A p \in 1..Len(Combined) : DOMAIN Combined[p] = ExtKeys \cup {"own"}
                                        /\ Combined[p].own = ByCaller
        /\ Len(finalResult) <= Len(WellFormedRecords(argA)) + Len(WellFormedRecords(argB))
        /\ extPc = "done" =>
              finalResult = MergeExtensionListsOf(WellFormedRecords(argA),
                                                  WellFormedRecords(argB))

\* C15 witness: mergeExtensionLists returned for a first argument that
\* holds a record between two entries that are not objects and a second
\* argument that is not an array, and the returned array holds that
\* record only.
MalformedRecordInputWitness ==
    /\ callPc = "entered"
    /\ extPc = "done"
    /\ argA.kind = "array"
    /\ argB.kind \in {"null", "object", "string"}
    /\ \E k \in DOMAIN argA.items : argA.items[k].kind = "null"
    /\ \E k \in DOMAIN argA.items :
          /\ argA.items[k].kind = "object"
          /\ finalResult = <<JsonCopyExt(argA.items[k].ext)>>


-----------------------------------------------------------------------------
(* Properties of the handlers *)

\* the step is a run of the handler named n that ends with outcome o
Ends(n, o) == ops' = ops + 1 /\ lastOp'.name = n /\ lastOp'.outcome = o

\* an absent value of the slot reads as the empty list
ListOf(v) == IF ValueTruthy(v) THEN v ELSE ArrayOf(<<>>)

\* the extension records of a snapshot, as values
RecordsOf(snap) ==
    IF snap.extensions.kind = "array"
        THEN [k \in DOMAIN snap.extensions.items |->
                 JsonCopyExt(snap.extensions.items[k].ext)]
        ELSE <<>>

\* the bookmark forest of a snapshot, as values
ForestOf(snap) ==
    IF snap.bookmarks.kind = "array" THEN JsonCopyForest(snap.bookmarks.items) ELSE <<>>

InstalledIds == {liveExtensions[k].id : k \in DOMAIN liveExtensions}

\* C18: a step that is an auto backup whose upload succeeds leaves in the
\* basket every record of the slot whose extension is no longer installed,
\* and leaves in the slot the snapshot that it uploaded.
AutoBackupMergesAndStoresTwice ==
    [][ Ends("autoBackup", "ok") =>
            /\ \A k \in DOMAIN RecordsOf(persisted) :
                  RecordsOf(persisted)[k].id \notin InstalledIds =>
                      \E j \in DOMAIN RecordsOf(remote') :
                          RecordsOf(remote')[j].id = RecordsOf(persisted)[k].id
            /\ persisted' = remote' ]_vars

\* the file has a bookmarks value: the key is there and is not null
HasBookmarks(file) == file.bookmarks.kind \notin {"undefined", "null"}

SameExtension(r, q) ==
    \/ Truthy(r.id) /\ r.id = q.id
    \/ Truthy(r.homepageUrl) /\ r.homepageUrl = q.homepageUrl
    \/ JsonCopyExt(r) = JsonCopyExt(q)

\* the bookmarks and folders of a forest at every depth, by title and url
RECURSIVE NodeKeys(_)
NodeKeys(f) ==
    UNION { {[title |-> f[k].title, url |-> f[k].url]} \cup NodeKeys(f[k].children) :
               k \in DOMAIN f }

\* the records of the slot that are neither in the basket nor installed
OnlyLocalRecords ==
    {k \in DOMAIN RecordsOf(persisted) :
        /\ \A j \in DOMAIN RecordsOf(remote) :
              ~SameExtension(RecordsOf(persisted)[k], RecordsOf(remote)[j])
        /\ \A j \in DOMAIN liveExtensions :
              ~SameExtension(RecordsOf(persisted)[k], liveExtensions[j])}

\* the nodes of the slot that are neither in the basket nor in the browser
OnlyLocalNodes ==
    NodeKeys(ForestOf(persisted)) \ (NodeKeys(ForestOf(remote)) \cup NodeKeys(liveBookmarks))

\* C20: a step that is a restore, the reload after it included, leaves in
\* the slot no record of an extension and no bookmark or folder that before
\* the step was in the slot only, that is neither in the basket nor in the
\* live browser state.
RestoreDropsOnlyLocalData ==
    [][ (Ends("restore", "ok") \/ Ends("restore", "restored only")) =>
            /\ persisted'.present
            /\ \A k \in OnlyLocalRecords : \A j \in DOMAIN RecordsOf(persisted') :
                  ~SameExtension(RecordsOf(persisted)[k], RecordsOf(persisted')[j])
            /\ OnlyLocalNodes \cap NodeKeys(ForestOf(persisted')) = {} ]_vars

\* C20 witness: a restore and its reload have run on a slot that held the
\* record i9 and the bookmark t9, neither of them in the basket or in the
\* browser; the slot now holds the record i7 and the bookmark t7 of the
\* basket, and neither i9 nor t9.
RestoreWitness ==
    /\ ops = 1
    /\ lastOp.name = "restore" /\ lastOp.outcome = "ok"
    /\ \E k \in DOMAIN RecordsOf(lastOp.before) : RecordsOf(lastOp.before)[k].id = "i9"
    /\ [title |-> "t9", url |-> "u9"] \in NodeKeys(ForestOf(lastOp.before))
    /\ \E k \in DOMAIN RecordsOf(persisted) : RecordsOf(persisted)[k].id = "i7"
    /\ [title |-> "t7", url |-> "u7"] \in NodeKeys(ForestOf(persisted))
    /\ \A k \in DOMAIN RecordsOf(persisted) : RecordsOf(persisted)[k].id # "i9"
    /\ [title |-> "t9", url |-> "u9"] \notin NodeKeys(ForestOf(persisted))

\* C21: a step that is an export, whether it ends with a download or with
\* an alert, changes neither the slot nor the basket nor the installed
\* extensions nor the browser's bookmark tree nor the stored Pantry id.
ExportWritesNoStore ==
    [][ (ops' = ops + 1 /\ lastOp'.name = "export") =>
            UNCHANGED <<persisted, remote, liveExtensions, liveBookmarks, pantryId>> ]_vars

\* C21 witness: an export has handed over a file with the stored record i9
\* and the installed extension i1 while the slot is what it was before and
\* the stored record of i1 still has its old name.
ExportWitness ==
    /\ ops = 1
    /\ lastOp.name = "export" /\ lastOp.outcome = "ok"
    /\ download.kind = "json"
    /\ \E k \in DOMAIN RecordsOf(download.data) : RecordsOf(download.data)[k].id = "i9"
    /\ \E k \in DOMAIN RecordsOf(download.data) :
          /\ RecordsOf(download.data)[k].id = "i1"
          /\ RecordsOf(download.data)[k].name = "n1"
    /\ persisted = lastOp.before
    /\ \E k \in DOMAIN RecordsOf(persisted) :
          /\ RecordsOf(persisted)[k].id = "i1"
          /\ RecordsOf(persisted)[k].name = "n0"

\* C22: a step that is the initial load, run without shouldSaveMergedData,
\* leaves the slot as it was, for every stored snapshot and every live
\* state; a load writes the slot only where it is run with the flag, in the
\* reload of a restore.
LoadWithoutFlagKeepsSlot ==
    [][ (ops' = ops + 1 /\ lastOp'.name = "load") => persisted' = persisted ]_vars

\* C22 witness: an initial load has run on a slot that holds a snapshot
\* which the merge with the live state would have changed, and the slot is
\* what it was.
LoadWitness ==
    /\ ops = 1
    /\ lastOp.name = "load" /\ lastOp.outcome = "ok"
    /\ persisted.present
    /\ persisted = lastOp.before
    /\ Serialised(MergedData(persisted, liveExtensions, liveBookmarks)) # persisted
    /\ \E k \in DOMAIN liveExtensions :
          /\ liveExtensions[k].id = "i2"
          /\ \A j \in DOMAIN RecordsOf(persisted) : RecordsOf(persisted)[j].id # "i2"

\* C23: a step of a handler in which an external collaborator fails
\* (storage, browser API, network or remote response) ends with a failure
\* shown or returned to the caller; in no step a promise rejection is left
\* unhandled.
CollaboratorFailuresAreReported ==
    [][ ops' = ops + 1 =>
            /\ lastOp'.told # "unhandled"
            /\ lastOp'.fault # "none" => lastOp'.told = "failure" ]_vars

\* both handlers in flight have run to their end
BothDone == \A h \in Racers : pending[h].pc = "done"

\* what the handler h has passed to chrome.storage.local.set, computed from
\* the slot as h read it (and, for the backup, the live tree as it read it)
WrittenBy(h) ==
    IF h = "import"
        THEN DataToSave(pending[h].file, pending[h].stored)
        ELSE MergedBackupData(pending[h].stored, liveExtensions, pending[h].tree).value

\* C24: when an import and a manual backup have run interleaved and at
\* least one has written, the slot holds exactly the snapshot of the one
\* that wrote last, computed from the slot as that handler read it: nothing
\* of the other's write is in it unless that handler read it.
LastWriterWins ==
    (BothDone /\ writers # <<>>) =>
        persisted = Serialised(WrittenBy(writers[Len(writers)]))

\* C24 witness: both handlers read the same slot before either wrote, the
\* import wrote the record i6 of its file, the manual backup wrote last, and
\* the slot holds the stored record i9 but not i6.
LastWriterWinsWitness ==
    /\ BothDone
    /\ writers = <<"import", "manualBackup">>
    /\ pending["import"].stored = pending["manualBackup"].stored
    /\ \E k \in DOMAIN RecordsOf(pending["import"].file) :
          RecordsOf(pending["import"].file)[k].id = "i6"
    /\ \E k \in DOMAIN RecordsOf(persisted) : RecordsOf(persisted)[k].id = "i9"
    /\ \A k \in DOMAIN RecordsOf(persisted) : RecordsOf(persisted)[k].id # "i6"

-----------------------------------------------------------------------------
(* Properties of exportBookmarksAsHtml *)

\* the bookmarks of a forest at every depth, each with the titles of its
\* ancestor folders as the file shows them, outermost first
RECURSIVE LeavesWithPaths(_, _)
LeavesWithPaths(f, path) ==
    Flatten([k \in DOMAIN f |->
        IF Truthy(f[k].url)
            THEN <<[href |-> f[k].url, path |-> path]>>
            ELSE LeavesWithPaths(f[k].children, Append(path, EscapeHtml(f[k].title)))])

\* the A entries of a file read line by line, each with the texts of the
\* H3 blocks that are open where it stands
RECURSIVE EntriesWithBlocks(_, _)
EntriesWithBlocks(lines, open) ==
    IF lines = <<>> THEN <<>>
    ELSE LET l == Head(lines)
         IN  CASE l.tag = "A"   -> <<[href |-> l.href, path |-> open]>>
                                   \o EntriesWithBlocks(Tail(lines), open)
               [] l.tag = "H3"  -> EntriesWithBlocks(Tail(lines), Append(open, l.text))
               [] l.tag = "/DL" /\ l.depth > 0 ->
                                   EntriesWithBlocks(Tail(lines), SubSeq(open, 1, Len(open) - 1))
               [] OTHER         -> EntriesWithBlocks(Tail(lines), open)

\* how often e occurs in the sequence
CountIn(seq, e) == Cardinality({k \in DOMAIN seq : seq[k] = e})

\* the stored forest has a root, which the export peels
HasPeeledRoot ==
    /\ persisted.bookmarks.kind = "array"
    /\ persisted.bookmarks.items # <<>>
    /\ persisted.bookmarks.items[1].folder

\* C25: in the exported file every bookmark below the peeled root stands
\* exactly once, inside the H3 blocks of exactly its ancestor folders, and
\* the file has no other A entry.
HtmlExportHasEveryLeafOnce ==
    (download.kind = "html" /\ HasPeeledRoot) =>
        LET leaves  == LeavesWithPaths(persisted.bookmarks.items[1].children, <<>>)
            entries == EntriesWithBlocks(download.lines, <<>>)
        IN  /\ \A k \in DOMAIN leaves : CountIn(entries, leaves[k]) = CountIn(leaves, leaves[k])
            /\ \A k \in DOMAIN entries : CountIn(leaves, entries[k]) > 0

-----------------------------------------------------------------------------
(* Properties of the remote calls *)

\* the step is a manual backup or a restore whose remote call failed or was
\* never made because no account id is saved
RemoteCallFails ==
    /\ ops' = ops + 1
    /\ lastOp'.name \in {"manualBackup", "restore"}
    /\ ~Truthy(pantryId) \/ lastOp'.remoteCall = "failed"

\* C26: a manual backup or a restore without a saved account id, or whose
\* POST or GET fails, is answered with a status that is not OK or, for the
\* restore, brings no object, does not write the persisted slot.
FailedRemoteCallKeepsSlot == [][RemoteCallFails => persisted' = persisted]_vars

\* a restore whose GET failed has ended while the slot holds a snapshot and
\* the basket holds another one; the slot is as it was
FailedRemoteCallWitness ==
    /\ lastOp.name = "restore"
    /\ lastOp.remoteCall = "failed"
    /\ Truthy(pantryId)
    /\ persisted.present
    /\ remote.present
    /\ remote # persisted
    /\ lastOp.before = persisted

-----------------------------------------------------------------------------
(* Properties of repeated merges *)

\* a list as chrome.management.getAll gives it: every record has an id and
\* no two records have the same id
IsLiveList(l) ==
    /\ \A k \in DOMAIN l : Truthy(l[k].id)
    /\ \A j, k \in DOMAIN l : j # k => l[j].id # l[k].id

\* C27: merging the same live state a second time changes nothing: for a
\* stored list S and a live list L, mergeExtensionLists(mergeExtensionLists(
\* S, L), L) equals mergeExtensionLists(S, L), and for a stored forest S and
\* a live forest L, mergeBookmarkTrees(mergeBookmarkTrees(S, L), L) equals
\* mergeBookmarkTrees(S, L).
RepeatedMergeIsStable ==
    /\ (extPc = "done" /\ IsLiveList(listB))
           => MergeExtensionListsOf(finalResult, listB) = finalResult
    /\ treePc = "done" => MergeBookmarkTreesOf(merged, treeB) = merged

-----------------------------------------------------------------------------
(* Properties of the import and the live bookmarks *)

\* the bookmarks that are direct children of the bookmarks bar of a live
\* tree, by title and url
BarLeaves(tree) ==
    LET bar == FindBookmarksBar(tree)
    IN  IF bar = 0 THEN {}
        ELSE LET children == tree[1].children[bar].children
             IN  {[title |-> children[k].title, url |-> children[k].url] :
                     k \in {j \in DOMAIN children : IsLeaf(children[j])}}

\* C28: a step that is an import that succeeds leaves every bookmark that
\* was a direct child of the browser's bookmarks bar before the step in the
\* live bookmark tree or in the bookmarks of the persisted slot.
ImportKeepsLiveBarLeaves ==
    [][ Ends("import", "ok") =>
            BarLeaves(liveBookmarks) \subseteq
                (NodeKeys(liveBookmarks') \cup NodeKeys(ForestOf(persisted'))) ]_vars

-----------------------------------------------------------------------------
(* Properties of the auto-backup timer *)

\* the start-up of the popup is over: the import has resolved and the
\* settings were read
StartupDone == popup.settingsPc = "done" /\ Truthy(popup.performManualBackupHandler)

\* the step is a change of the toggle that switches auto backup off
SwitchedOff ==
    /\ popup'.changes = popup.changes + 1
    /\ popup.autoBackupToggle
    /\ ~popup'.autoBackupToggle

\* C29: with autoBackupEnabled stored as true, exactly one interval timer
\* is active once the import has resolved and the settings were read,
\* whatever the order of the two; at no time is more than one interval
\* timer active; and none is active right after auto backup is switched
\* off.
AutoBackupTimerStartedOnce ==
    /\ []((StartupDone /\ popup.storedSettings.autoBackupEnabled)
              => Cardinality(popup.intervals) = 1)
    /\ [](Cardinality(popup.intervals) <= 1)
    /\ [][SwitchedOff => popup'.intervals = {}]_vars

-----------------------------------------------------------------------------
(* Properties of removeExtensionFromList *)

\* the entries of the stored extension list, none if there is no list
StoredEntries(slot) ==
    IF slot.present /\ slot.extensions.kind = "array" THEN slot.extensions.items ELSE <<>>

\* the stored list holds a record with the id
HoldsId(slot, extensionId) ==
    \E k \in DOMAIN StoredEntries(slot) :
        /\ StoredEntries(slot)[k].kind = "object"
        /\ StoredEntries(slot)[k].ext.id = extensionId

\* the step is a call of removeExtensionFromList that returns v
Returns(v) == ops' = ops + 1 /\ lastOp'.name = "remove" /\ lastOp'.outcome = v

\* the entries of the list but the records with the id, in their order
OtherEntries(slot, extensionId) ==
    LET IsOther(e) == ~(e.kind = "object" /\ e.ext.id = extensionId)
    IN  SelectSeq(StoredEntries(slot), IsOther)

====
